---- MODULE Spec2Model ----
(***************************************************************************)
(* TalentAI: task orchestration (task_service.py, tasks/*.py), the         *)
(* learning-to-rank weight store (learning_to_rank.py) and the FAISS       *)
(* vector index wrapper (vector_store.py).                                 *)
(*                                                                         *)
(* Fourteen specifications share the module; each one moves the variables  *)
(* of one subsystem and leaves the others at their initial value:          *)
(*   Spec      task records, the Celery runtime and the task bodies        *)
(*   SpecLTR   recruiter interactions and learned-weights records          *)
(*   SpecFault the same with failing store calls, for one request scope    *)
(*   SpecScope the weight cache over request scopes, insert failing or not *)
(*   SpecReward  record_interaction for every interaction type and rank    *)
(*   SpecFeedback  update_weights_with_feedback around the retrain counts  *)
(*   SpecRace  update_weights_with_feedback calls that overlap             *)
(*   SpecEngine  retraining get_optimal_weights calls that overlap         *)
(*   SpecCreate  create_task and get_user_tasks over more than one id      *)
(*   SpecVec   the vector index, its metadata map and the persisted files  *)
(*   SpecSearch  search on the vector index between additions              *)
(*   SpecRestart the index files over restarts whose load may fail         *)
(*   SpecRank  candidate search by the endpoint and by the search task     *)
(*   SpecScore the scoring and normalising functions on their inputs       *)
(***************************************************************************)
EXTENDS Integers, Sequences, FiniteSets, TLC

(***************************************************************************)
(* Bounds of the model.                                                    *)
(***************************************************************************)
MaxLoss == 1
NumCandidates == 2
NumTexts == 2

Min(a, b) == IF a < b THEN a ELSE b
Max(a, b) == IF a > b THEN a ELSE b

(***************************************************************************)
(* Task orchestration                                                      *)
(***************************************************************************)
VARIABLES store, celery, wk, candidates, ret

taskVars == <<store, celery, wk, candidates, ret>>

\* The weight-learning engine's collections, its clock and its last answer.
VARIABLES interactions, learning_weights, now, lret, recorded

\* Calls on the one engine of the web process that are suspended at an
\* await, the engine's scaler and regressor, and the interaction counts at
\* which a feedback call started a retrain (history).
VARIABLES calls, engine, triggered

coVars == <<calls, engine, triggered>>

ltrVars == <<interactions, learning_weights, now, lret, recorded, calls, engine,
             triggered>>

\* The vector store: the instance in memory, the two files, and what its
\* callers were handed.
VARIABLES index, dimensions, metadata, index_file, meta_file, issued, vret

vecVars == <<index, dimensions, metadata, index_file, meta_file, issued, vret>>

VARIABLES db_candidates, sret, computed

rankVars == <<db_candidates, sret, computed>>

\* Records are keyed by task_id and every operation addresses one id; the
\* model follows one id through creation, execution, polling and cancel.
TaskIds == {"t1"}

\* The ids str(uuid.uuid4()) can produce, and the metadata arguments of
\* create_task (None is the default of the parameter).
Uuids == {"t1", "t2"}
Metas == {"None", "{}", "creation"}
Users == {"u1", "u2"}
Kinds == {"resume", "search", "embedding", "reembed", "retrain"}
Errors == {"e1", "e2"}

\* TaskStatus values; update_task_status stores status.lower().
TerminalStatuses == {"success", "failure", "revoked"}

\* Celery result-backend states that get_task_status treats as final.
CeleryFinal == {"SUCCESS", "FAILURE", "REVOKED"}

CancelText_Empty == ""
CancelText == "Task cancelled by user"

\* retry_kwargs={'max_retries': n} on each @shared_task.
MaxRetries(kind) ==
  CASE kind = "resume" -> 3
    [] kind = "embedding" -> 3
    [] kind = "search" -> 2
    [] kind = "reembed" -> 2
    [] kind = "retrain" -> 2

\* Progress written inside a loop over total items:
\* progress = min(cap, lo + int((i + 1) / total * span)), reported when
\* i % max(1, total // stride) == 0 (i is 0-based in the code, 1-based here).
LoopProgress(total, lo, span, cap, stride) ==
  LET all == [i \in 1..total |-> Min(cap, lo + ((i * span) \div total))]
      idx == {i \in 1..total : (i - 1) % Max(1, total \div stride) = 0}
      RECURSIVE pick(_)
      pick(i) == IF i > total THEN <<>>
                 ELSE IF i \in idx THEN <<all[i]>> \o pick(i + 1)
                 ELSE pick(i + 1)
  IN pick(1)

\* The progress milestones a task body reports after STARTED (progress 5),
\* in program order.
Milestones(kind) ==
  CASE kind = "resume" -> <<10, 25, 50, 70, 85, 90, 95, 100>>
    [] kind = "search" ->
         <<10, 20, 30, 40>> \o LoopProgress(NumCandidates, 40, 40, 80, 4)
                            \o <<90, 95, 100>>
    [] kind = "embedding" ->
         <<10>> \o LoopProgress(NumTexts, 10, 80, 90, 10) \o <<100>>
    [] kind = "reembed" ->
         <<10>> \o LoopProgress(NumCandidates, 10, 80, 90, 20) \o <<100>>
    [] kind = "retrain" -> <<10, 30, 50, 70, 85, 95, 100>>

\* pc = k: milestone k has been written (0: STARTED) and the work that
\* follows it is pending.  CanFail: that work can raise out of the body.
CanFail(kind, k) ==
  CASE kind = "resume" -> k \in 1..6
    [] kind = "search" -> k \in {1, 3} \cup (4..(3 + NumCandidates))
    [] kind = "embedding" -> k = 0
    [] kind = "reembed" -> k = 0
    [] kind = "retrain" -> k = 0

\* CanStep: the work after milestone k can complete and milestone k+1 is
\* written.  LearningToRankEngine() is called without its db argument in
\* _retrain_model_internal, so the retraining body raises before its first
\* milestone.  _search_candidates_internal passes experience_score= and
\* blind_screening= to MatchResult.from_candidate_and_scores, which takes
\* experience_match_score and blind_mode, so the search body raises at the
\* first candidate, after milestone 40.
CanStep(kind, k) ==
  /\ k < Len(Milestones(kind))
  /\ kind # "retrain"
  /\ ~(kind = "search" /\ k >= 4)

\* CanReturn: the body returns its result after milestone k.
CanReturn(kind, k) ==
  \/ kind # "retrain" /\ k = Len(Milestones(kind))
  \/ kind = "search" /\ k = 3
  \/ kind = "reembed" /\ k = 0

NoRecord ==
  [exists |-> FALSE, task_type |-> "none", status |-> "none", progress |-> 0,
   error |-> "none", created_by |-> "none", started_at |-> FALSE,
   completed_at |-> FALSE, result |-> FALSE, metadata |-> "none",
   created_at |-> 0]

\* countdowns (history): the delay of every retry of the task so far, in
\* seconds.
IdleWorker ==
  [msg |-> "none", pc |-> 0, retries |-> 0, losses |-> 0, exc |-> "none",
   revoked |-> FALSE, countdowns |-> <<>>]

\* ret: the response of the service call made by the last step (NoRet after
\* a worker step).  before: the stored status the call found; seen: what the
\* call observed (Celery state, or the failing call); kind, meta: the
\* task_type and metadata arguments of create_task; limit: the limit
\* argument of get_user_tasks.
NoRet == [op |-> "none", user |-> "none", value |-> "none", seen |-> "none",
          before |-> "none", kind |-> "none", meta |-> "none", limit |-> 0]

InitTasks ==
  /\ store = [t \in Uuids |-> NoRecord]
  /\ celery = [t \in Uuids |-> "PENDING"]
  /\ wk = [t \in Uuids |-> IdleWorker]
  /\ candidates = [t \in Uuids |-> 0]
  /\ ret = NoRet

(***************************************************************************)
(* BaseJobMatcherTask.update_task_status: one update_one with $set of the  *)
(* status (lower-cased), and of progress / result / error / metadata when  *)
(* they are given (-1, FALSE, "keep": not given).  started_at is set for   *)
(* STARTED, completed_at for SUCCESS and FAILURE.  The write is            *)
(* unconditional: it does not look at the stored status.                   *)
(***************************************************************************)
update_task_status(rec, status, progress, result, error, meta) ==
  IF ~rec.exists THEN rec
  ELSE [rec EXCEPT
          !.status = status,
          !.progress = IF progress = -1 THEN @ ELSE progress,
          !.result = IF result THEN TRUE ELSE @,
          !.error = IF error = "keep" THEN @ ELSE error,
          !.metadata = IF meta = "keep" THEN @ ELSE meta,
          !.started_at = IF status = "started" THEN TRUE ELSE @,
          !.completed_at = IF status \in {"success", "failure"} THEN TRUE ELSE @]

\* update_progress: status PROGRESS, the progress value, and the metadata
\* map replaced by {'message': message}.
update_progress(rec, progress) ==
  update_task_status(rec, "progress", progress, FALSE, "keep", "message")

\* on_success writes progress=100 with the result; the variant leaves the
\* progress as the body left it.
on_success_KeepProgress(rec) ==
  update_task_status(rec, "success", -1, TRUE, "keep", "keep")

on_success(rec) == update_task_status(rec, "success", 100, TRUE, "keep", "keep")

on_failure(rec, exc) == update_task_status(rec, "failure", -1, FALSE, exc, "keep")

on_retry(rec, exc) == update_task_status(rec, "retry", -1, FALSE, exc, "keep")

\* uuid.uuid4(): 122 random bits, taken as an id no record holds.
uuid4_Any == Uuids
uuid4 == {t \in Uuids : ~store[t].exists}

\* TaskService.create_task: a pending record under the new id, with
\* metadata=metadata or {}.
create_task(t, kind, user, meta) ==
  [NoRecord EXCEPT !.exists = TRUE, !.task_type = kind, !.status = "pending",
                   !.created_by = user,
                   !.metadata = IF meta = "None" THEN "{}" ELSE meta]

\* TaskInfo.created_at: the time at which the record was built, a clock
\* reading that is not before that of any earlier record and may equal the
\* latest one.
TaskInfoCreatedAt ==
  LET latest == CHOOSE n \in 0..Cardinality(Uuids) :
                  /\ \A t \in Uuids : store[t].created_at <= n
                  /\ n = 0 \/ \E t \in Uuids : store[t].created_at = n
  IN {n \in 1..Cardinality(Uuids) : latest <= n /\ n <= latest + 1}

\* A call of TaskService.create_task on its own: insert_one and the id.
CreateTask(kind, user, meta) ==
  /\ \E t \in uuid4, at \in TaskInfoCreatedAt :
       /\ store' = [store EXCEPT ![t] =
            [create_task(t, kind, user, meta) EXCEPT !.created_at = at]]
       /\ ret' = [op |-> "create_task", user |-> user, value |-> t,
                  seen |-> "none", before |-> "none", kind |-> kind,
                  meta |-> meta, limit |-> 0]
  /\ UNCHANGED <<celery, wk, candidates>>
  /\ UNCHANGED <<ltrVars, vecVars, rankVars>>

\* TaskService.start_*: create_task followed by apply_async(task_id=...).
StartTask(t, kind, user) ==
  /\ t \in uuid4
  /\ \E at \in TaskInfoCreatedAt :
       store' = [store EXCEPT ![t] =
         [create_task(t, kind, user, "creation") EXCEPT !.created_at = at]]
  /\ wk' = [wk EXCEPT ![t].msg = "queued"]
  /\ ret' = [op |-> "create_task", user |-> user, value |-> t,
             seen |-> "none", before |-> "none", kind |-> kind,
             meta |-> "creation", limit |-> 0]
  /\ UNCHANGED <<celery, candidates>>
  /\ UNCHANGED <<ltrVars, vecVars, rankVars>>

\* The worker takes the message and runs the task function up to its
\* update_task_status(task_id, 'STARTED', progress=5).
TaskStart(t) ==
  /\ wk[t].msg = "queued"
  /\ ~wk[t].revoked
  /\ celery' = [celery EXCEPT ![t] = "STARTED"]
  /\ store' = [store EXCEPT
       ![t] = update_task_status(@, "started", 5, FALSE, "keep", "keep")]
  /\ wk' = [wk EXCEPT ![t].msg = "running", ![t].pc = 0]
  /\ ret' = NoRet /\ UNCHANGED candidates
  /\ UNCHANGED <<ltrVars, vecVars, rankVars>>

\* A message whose id is in the worker's revoked set is dropped on receipt.
DiscardRevoked(t) ==
  /\ wk[t].msg = "queued"
  /\ wk[t].revoked
  /\ celery' = [celery EXCEPT ![t] = "REVOKED"]
  /\ wk' = [wk EXCEPT ![t].msg = "finished"]
  /\ ret' = NoRet /\ UNCHANGED <<store, candidates>>
  /\ UNCHANGED <<ltrVars, vecVars, rankVars>>

\* The progress values the next update_progress call may carry.  The resume
\* body reports 25 for an uploaded file and 30 for a text-only resume.
NextProgress(kind, k) ==
  IF kind = "resume" /\ k = 1 THEN {25, 30} ELSE {Milestones(kind)[k + 1]}

\* db.candidates.insert_one(candidate.dict()) sits between the milestones 90
\* and 95 of _process_resume_internal; Candidate() draws a fresh id.
InsertsCandidate(kind, k) == kind = "resume" /\ k = 6

BodyStep(t) ==
  /\ wk[t].msg = "running"
  /\ CanStep(store[t].task_type, wk[t].pc)
  /\ \E p \in NextProgress(store[t].task_type, wk[t].pc) :
       store' = [store EXCEPT ![t] = update_progress(@, p)]
  /\ candidates' = [candidates EXCEPT
       ![t] = IF InsertsCandidate(store[t].task_type, wk[t].pc) THEN @ + 1 ELSE @]
  /\ wk' = [wk EXCEPT ![t].pc = @ + 1]
  /\ ret' = NoRet /\ UNCHANGED celery
  /\ UNCHANGED <<ltrVars, vecVars, rankVars>>

\* An exception leaves the body: the inner except of _*_internal and the
\* outer except of the task function each call
\* update_task_status(task_id, 'FAILURE', error=str(e)) and re-raise.
RaiseWrites_NoError(rec, e) ==
  update_task_status(rec, "failure", -1, FALSE, "keep", "keep")

RaiseWrites(rec, e) == on_failure(on_failure(rec, e), e)

BodyRaise(t, e) ==
  /\ wk[t].msg = "running"
  /\ CanFail(store[t].task_type, wk[t].pc)
  /\ store' = [store EXCEPT ![t] = RaiseWrites(@, e)]
  /\ wk' = [wk EXCEPT ![t].msg = "raised", ![t].exc = e]
  /\ ret' = NoRet /\ UNCHANGED <<celery, candidates>>
  /\ UNCHANGED <<ltrVars, vecVars, rankVars>>

\* autoretry_for=(Exception,): task.retry(exc=exc, max_retries=n) re-queues
\* the same task id while request.retries < n; Celery stores RETRY and calls
\* on_retry.
ShouldRetry_OffByOne(kind, retries) == retries <= MaxRetries(kind)

ShouldRetry(kind, retries) == retries < MaxRetries(kind)

\* retry_kwargs={..., 'countdown': s}: the delay task.retry is called with
\* at retry number retries + 1.  No task sets retry_backoff, so the delay
\* does not depend on the retry number.
countdown(kind, retries) ==
  CASE kind = "resume" -> 60
    [] kind = "embedding" -> 30
    [] kind = "search" -> 30
    [] kind = "reembed" -> 60
    [] kind = "retrain" -> 120

HandleRetry(t) ==
  /\ wk[t].msg = "raised"
  /\ ShouldRetry(store[t].task_type, wk[t].retries)
  /\ celery' = [celery EXCEPT ![t] = "RETRY"]
  /\ store' = [store EXCEPT ![t] = on_retry(@, wk[t].exc)]
  /\ wk' = [wk EXCEPT ![t].msg = "queued", ![t].pc = 0, ![t].retries = @ + 1,
                       ![t].countdowns =
                         Append(@, countdown(store[t].task_type, wk[t].retries))]
  /\ ret' = NoRet /\ UNCHANGED candidates
  /\ UNCHANGED <<ltrVars, vecVars, rankVars>>

\* Retries exhausted: the exception is final; Celery stores FAILURE and
\* calls on_failure.
HandleFailure(t) ==
  /\ wk[t].msg = "raised"
  /\ ~ShouldRetry(store[t].task_type, wk[t].retries)
  /\ celery' = [celery EXCEPT ![t] = "FAILURE"]
  /\ store' = [store EXCEPT ![t] = on_failure(@, wk[t].exc)]
  /\ wk' = [wk EXCEPT ![t].msg = "finished"]
  /\ ret' = NoRet /\ UNCHANGED candidates
  /\ UNCHANGED <<ltrVars, vecVars, rankVars>>

\* The body returns: Celery stores SUCCESS in the result backend, and only
\* then calls the on_success handler.
TaskReturn(t) ==
  /\ wk[t].msg = "running"
  /\ CanReturn(store[t].task_type, wk[t].pc)
  /\ celery' = [celery EXCEPT ![t] = "SUCCESS"]
  /\ wk' = [wk EXCEPT ![t].msg = "returned"]
  /\ ret' = NoRet /\ UNCHANGED <<store, candidates>>
  /\ UNCHANGED <<ltrVars, vecVars, rankVars>>

OnSuccess(t) ==
  /\ wk[t].msg = "returned"
  /\ store' = [store EXCEPT ![t] = on_success(@)]
  /\ wk' = [wk EXCEPT ![t].msg = "finished"]
  /\ ret' = NoRet /\ UNCHANGED <<celery, candidates>>
  /\ UNCHANGED <<ltrVars, vecVars, rankVars>>

\* control.revoke(task_id, terminate=True) reaches the worker: the process
\* running the body is killed and the task is stored as REVOKED.
Terminate(t) ==
  /\ wk[t].msg = "running"
  /\ wk[t].revoked
  /\ celery' = [celery EXCEPT ![t] = "REVOKED"]
  /\ wk' = [wk EXCEPT ![t].msg = "finished"]
  /\ ret' = NoRet /\ UNCHANGED <<store, candidates>>
  /\ UNCHANGED <<ltrVars, vecVars, rankVars>>

\* task_acks_late + task_reject_on_worker_lost: when the worker process
\* dies mid-task the message goes back to the queue and the same task id is
\* executed again from the top (request.retries unchanged).
WorkerLost(t) ==
  /\ wk[t].msg = "running"
  /\ wk[t].losses < MaxLoss
  /\ wk' = [wk EXCEPT ![t].msg = "queued", ![t].pc = 0, ![t].losses = @ + 1]
  /\ ret' = NoRet /\ UNCHANGED <<store, celery, candidates>>
  /\ UNCHANGED <<ltrVars, vecVars, rankVars>>

(***************************************************************************)
(* TaskService                                                             *)
(***************************************************************************)
\* status_map.get(celery_result.state, TaskStatus.PENDING)
status_map(state) ==
  CASE state = "SUCCESS" -> "success"
    [] state = "FAILURE" -> "failure"
    [] state = "REVOKED" -> "revoked"
    [] state = "RETRY" -> "retry"
    [] OTHER -> "pending"

\* _sync_celery_status: status and completed_at from the Celery result,
\* result and progress 100 for SUCCESS, str(celery_result.info) for FAILURE.
sync_celery_status(rec, state, info) ==
  [rec EXCEPT
     !.status = status_map(state),
     !.completed_at = TRUE,
     !.result = IF state = "SUCCESS" THEN TRUE ELSE @,
     !.progress = IF state = "SUCCESS" THEN 100 ELSE @,
     !.error = IF state = "FAILURE" THEN info ELSE @]

\* The record get_task_status answers from: the stored one, written through
\* by _sync_celery_status when Celery reports a final state that the record
\* does not show yet.  seen = "ERR": AsyncResult raised and was logged.
reconcile_NoWriteThrough(rec, seen, info) == rec

reconcile(rec, seen, info) ==
  IF seen \in CeleryFinal /\ rec.status \notin TerminalStatuses
  THEN sync_celery_status(rec, seen, info)
  ELSE rec

get_task_status(t, seen) ==
  /\ store' = [store EXCEPT
       ![t] = IF @.exists THEN reconcile(@, seen, wk[t].exc) ELSE @]
  /\ ret' = [op |-> "get_task_status", user |-> "none",
             value |-> IF store[t].exists THEN store'[t].status ELSE "None",
             seen |-> seen, before |-> store[t].status, kind |-> "none",
             meta |-> "none", limit |-> 0]
  /\ UNCHANGED <<celery, wk, candidates>>

GetTaskStatus(t) ==
  /\ \E seen \in {celery[t], "ERR"} : get_task_status(t, seen)
  /\ UNCHANGED <<ltrVars, vecVars, rankVars>>

\* cancel_task: find_one({task_id, created_by}); False when there is no such
\* record or its status is final; otherwise control.revoke(terminate=True)
\* and an update_one to REVOKED / completed_at / 'Task cancelled by user'.
\* fault: the call that raises inside the try block, if any.
MayCancel_AnyUser(rec, user) ==
  /\ rec.exists
  /\ rec.status \notin TerminalStatuses

MayCancel(rec, user) ==
  /\ rec.exists
  /\ rec.created_by = user
  /\ rec.status \notin TerminalStatuses

cancel_task(t, user, fault) ==
  /\ IF MayCancel(store[t], user)
     THEN /\ wk' = [wk EXCEPT ![t].revoked = IF fault = "revoke" THEN @ ELSE TRUE]
          /\ store' = [store EXCEPT ![t] =
               IF fault = "none"
               THEN [@ EXCEPT !.status = "revoked", !.completed_at = TRUE,
                              !.error = CancelText]
               ELSE @]
          /\ ret' = [op |-> "cancel_task", user |-> user,
                     value |-> IF fault = "none" THEN "True" ELSE "False",
                     seen |-> fault, before |-> store[t].status,
                     kind |-> "none", meta |-> "none", limit |-> 0]
     ELSE /\ UNCHANGED <<wk, store>>
          /\ ret' = [op |-> "cancel_task", user |-> user, value |-> "False",
                     seen |-> "none", before |-> store[t].status,
                     kind |-> "none", meta |-> "none", limit |-> 0]
  /\ UNCHANGED <<celery, candidates>>

CancelTask(t, user) ==
  /\ \E fault \in {"none", "revoke", "write"} : cancel_task(t, user, fault)
  /\ UNCHANGED <<ltrVars, vecVars, rankVars>>

MaxLimit == 2

\* sort("created_at", -1): a goes before b.  The variant sorts ascending.
sort_created_at_Ascending(a, b) == a <= b

sort_created_at(a, b) == a >= b

\* get_user_tasks(user_id, task_type, limit):
\* find(query).sort("created_at", -1).limit(limit).to_list(limit), each
\* document turned into a TaskInfoResponse.  task_type "None": no filter on
\* the kind.  Documents of equal created_at come in either order; to_list
\* raises ValueError for a negative length and gives [] for length 0.
get_user_tasks(user, task_type, limit) ==
  LET found == {t \in Uuids :
                  /\ store[t].exists
                  /\ store[t].created_by = user
                  /\ task_type = "None" \/ store[t].task_type = task_type}
      n == Cardinality(found)
      orders == {o \in [1..n -> found] :
                   /\ \A i, j \in 1..n : i # j => o[i] # o[j]
                   /\ \A i, j \in 1..n :
                        i < j => sort_created_at(store[o[i]].created_at,
                                                 store[o[j]].created_at)}
      response(t) == [task_id |-> t, task_type |-> store[t].task_type,
                      status |-> store[t].status,
                      created_by |-> store[t].created_by,
                      created_at |-> store[t].created_at]
  IN IF limit < 0
     THEN ret' = [NoRet EXCEPT !.op = "get_user_tasks", !.user = user,
                               !.kind = task_type, !.limit = limit,
                               !.seen = "ValueError", !.value = <<>>]
     ELSE \E o \in orders :
            ret' = [NoRet EXCEPT
                      !.op = "get_user_tasks", !.user = user,
                      !.kind = task_type, !.limit = limit, !.seen = "ok",
                      !.value = [i \in 1..Min(limit, n) |-> response(o[i])]]

GetUserTasks(user, task_type, limit) ==
  /\ get_user_tasks(user, task_type, limit)
  /\ UNCHANGED <<store, celery, wk, candidates>>
  /\ UNCHANGED <<ltrVars, vecVars, rankVars>>

(***************************************************************************)
(* Learning-to-rank: recruiter_interactions and learning_weights           *)
(***************************************************************************)


MaxDay == 7
MaxNew == 1
MaxHist == 2
MaxPosition == 12

min_interactions_threshold_Low == 50 - 10

min_interactions_threshold == 50
MinSamples == 10
RecentDays == 30
FreshDays == 7
MinConfidence == 30

\* Weights are in thousandths, confidence and R^2 in hundredths.
default_weights == <<400, 400, 200>>

Recruiters == {"r1", "system"}
Categories == {"none", "c1", "c2"}
OldDay == 0 - 40
DayJumps == {6, 7}
Yesterday == 0 - 1

\* interactions: the recruiter_interactions collection in insertion order,
\* as runs of n documents that agree on recruiter, day and scored (all three
\* component scores present).
Run(rid, scored, day, n) == [rid |-> rid, scored |-> scored, day |-> day, n |-> n]

RECURSIVE CountFrom(_, _, _, _, _)
CountFrom(docs, i, rid, since, scoredOnly) ==
  IF i > Len(docs) THEN 0
  ELSE (IF /\ docs[i].day >= since
           /\ rid = "none" \/ docs[i].rid = rid
           /\ scoredOnly => docs[i].scored
        THEN docs[i].n ELSE 0)
       + CountFrom(docs, i + 1, rid, since, scoredOnly)

\* recruiter_interactions.count_documents({})
count_documents == CountFrom(interactions, 1, "none", OldDay, FALSE)

\* find({'timestamp': {'$gte': utcnow() - 30 days}[, 'recruiter_id': rid]})
RecentCount(rid) == CountFrom(interactions, 1, rid, now - RecentDays, FALSE)

\* ... of which semantic_score, skill_overlap_score and
\* experience_match_score are all present.
UsableCount(rid) == CountFrom(interactions, 1, rid, now - RecentDays, TRUE)

\* The values a LearningWeights object takes for the fields its caller does
\* not give: no confidence, no interactions, no category, stamped now.
LearningWeightsDefaults ==
  [confidence_score |-> 0, interaction_count |-> 0, job_category |-> "none",
   last_updated |-> now]

\* LearningWeights(**self.default_weights)
DefaultLearningWeights ==
  [semantic_weight |-> default_weights[1], skill_weight |-> default_weights[2],
   experience_weight |-> default_weights[3]] @@ LearningWeightsDefaults

\* What Ridge(alpha=0.1).fit on the standardized sample can yield: the
\* absolute coefficients and the R^2 on the training sample.
FitOutcomes ==
  { [coef |-> <<0, 0, 0>>, r2 |-> 0],
    [coef |-> <<3, 0, 1>>, r2 |-> 30],
    [coef |-> <<1, 1, 1>>, r2 |-> 31] }

\* raw_weights / weight_sum, or the default triple when the sum is 0; in
\* thousandths, rounded down.  The variant returns the raw importances.
normalized_weights_Raw(coef) == <<coef[1] * 100, coef[2] * 100, coef[3] * 100>>

normalized_weights(coef) ==
  LET weight_sum == coef[1] + coef[2] + coef[3]
  IN IF weight_sum > 0
     THEN <<(coef[1] * 1000) \div weight_sum, (coef[2] * 1000) \div weight_sum,
            (coef[3] * 1000) \div weight_sum>>
     ELSE default_weights

\* _learn_weights_from_interactions from the return of its find on: recent
\* interactions were loaded, usable of them carry all three scores.
learn_weights_on(cat, rid, failed, fit, recent, usable) ==
  LET w == normalized_weights(fit.coef)
  IN IF failed \/ recent < min_interactions_threshold \/ usable < MinSamples
     THEN DefaultLearningWeights @@ [learned_from |-> "none"]
     ELSE [semantic_weight |-> w[1], skill_weight |-> w[2],
           experience_weight |-> w[3], confidence_score |-> Max(0, fit.r2),
           interaction_count |-> recent, job_category |-> cat,
           learned_from |-> rid]
            @@ LearningWeightsDefaults

\* _learn_weights_from_interactions; failed: an exception inside its try.
\* learned_from (history, not a field of the document): the recruiter whose
\* interactions the query selected, "none" when it selected everybody's.
\* The variant drops the test on the number of recent interactions.
learn_weights_from_interactions_SamplesOnly(cat, rid, failed, fit) ==
  LET recent == RecentCount(rid)
      usable == UsableCount(rid)
      w == normalized_weights(fit.coef)
  IN IF failed \/ usable < MinSamples
     THEN DefaultLearningWeights @@ [learned_from |-> "none"]
     ELSE [semantic_weight |-> w[1], skill_weight |-> w[2],
           experience_weight |-> w[3], confidence_score |-> Max(0, fit.r2),
           interaction_count |-> recent, job_category |-> cat,
           learned_from |-> rid]
            @@ LearningWeightsDefaults

learn_weights_from_interactions(cat, rid, failed, fit) ==
  learn_weights_on(cat, rid, failed, fit, RecentCount(rid), UsableCount(rid))

\* _is_weights_fresh; the variant asks for a confidence above 0.5.
is_weights_fresh_Strict(doc) ==
  /\ now - doc.last_updated < FreshDays
  /\ doc.confidence_score > 50

is_weights_fresh(doc) ==
  /\ now - doc.last_updated < FreshDays
  /\ doc.confidence_score > MinConfidence

\* learning_weights.find_one(query, sort=[('last_updated', -1)]) with
\* query = {'job_category': cat} when a category is given and {} otherwise:
\* the index of the latest matching record, 0 when there is none.
find_existing(cat) ==
  LET hits == {i \in 1..Len(learning_weights) :
                 cat = "none" \/ learning_weights[i].job_category = cat}
  IN IF hits = {} THEN 0 ELSE CHOOSE i \in hits : \A j \in hits : j <= i

\* The records the query of get_optimal_weights matches and that pass
\* _is_weights_fresh, by index.
fresh_matches(cat) ==
  {i \in 1..Len(learning_weights) :
     /\ cat = "none" \/ learning_weights[i].job_category = cat
     /\ is_weights_fresh(learning_weights[i])}

\* _save_weights: insert_one of the weights with job_category overwritten.
\* The variant writes over the latest record, as an upsert would.
save_weights_Upsert(hist, w, cat) ==
  IF hist = <<>> THEN <<[w EXCEPT !.job_category = cat]>>
  ELSE [hist EXCEPT ![Len(hist)] = [w EXCEPT !.job_category = cat]]

save_weights(hist, w, cat) == Append(hist, [w EXCEPT !.job_category = cat])

Answer(cat, rid, fault, w, path, total) ==
  [op |-> "get_optimal_weights", cat |-> cat, rid |-> rid, fault |-> fault,
   weights |-> w, path |-> path, total |-> total]

\* The body of get_optimal_weights on a store that counts total
\* interactions and from which _learn_weights_from_interactions computes
\* learned.  fault: "load" a store read raises (outer except), "learn" an
\* exception inside _learn_weights_from_interactions, "save" insert_one
\* raises inside _save_weights.
get_optimal_weights_on(cat, rid, fault, total, learned) ==
  LET existing == find_existing(cat)
  IN IF fault = "load"
     THEN /\ lret' = Answer(cat, rid, fault, DefaultLearningWeights, "error", total)
          /\ UNCHANGED learning_weights
     ELSE IF total < min_interactions_threshold
     THEN /\ lret' = Answer(cat, rid, fault, DefaultLearningWeights, "default", total)
          /\ UNCHANGED learning_weights
     ELSE IF existing # 0 /\ is_weights_fresh(learning_weights[existing])
     THEN /\ lret' = Answer(cat, rid, fault, learning_weights[existing], "cached", total)
          /\ UNCHANGED learning_weights
     ELSE /\ fault = "save" \/ Len(learning_weights) < MaxHist
          /\ lret' = Answer(cat, rid, fault, learned, "learned", total)
          /\ learning_weights' =
               IF fault = "save" THEN learning_weights
               ELSE save_weights(learning_weights, learned, cat)

\* get_optimal_weights(job_category, recruiter_id) on the store as it is.
get_optimal_weights(cat, rid, fault, fit) ==
  get_optimal_weights_on(cat, rid, fault, count_documents,
    learn_weights_from_interactions(cat, rid, fault = "learn", fit))

Faults == {"none", "load", "learn", "save"}

GetOptimalWeights(cat, rid, fault) ==
  /\ \E fit \in FitOutcomes : get_optimal_weights(cat, rid, fault, fit)
  /\ UNCHANGED <<interactions, now, recorded>>
  /\ UNCHANGED coVars
  /\ UNCHANGED <<taskVars, vecVars, rankVars>>

NoAnswer ==
  [op |-> "none", cat |-> "none", rid |-> "none", fault |-> "none",
   weights |-> [semantic_weight |-> 0, skill_weight |-> 0,
                experience_weight |-> 0, confidence_score |-> 0,
                interaction_count |-> 0, job_category |-> "none",
                last_updated |-> 0],
   path |-> "none", total |-> 0]

\* search_position is None
NoPosition == 0 - 1

\* interaction_type values with an entry in self.reward_values
InteractionTypes ==
  {"click", "shortlist", "application", "interview", "hire", "reject"}

\* self.reward_values, in thousandths
reward_values(kind) ==
  CASE kind = "click" -> 100
    [] kind = "shortlist" -> 300
    [] kind = "application" -> 700
    [] kind = "interview" -> 900
    [] kind = "hire" -> 1000
    [] kind = "reject" -> 0 - 500

\* max(0, (10 - search_position) / 10 * 0.2), in thousandths; the variant
\* pays the full bonus down to position 1.
position_bonus_FromOne(p) == Max(0, (11 - p) * 20)

position_bonus(p) == Max(0, (10 - p) * 20)

\* The feedback_value record_interaction computes before it stores; the
\* variant forgets the bonus.
feedback_value_BaseOnly(kind, p) == reward_values(kind)

feedback_value(kind, p) ==
  IF p # NoPosition THEN reward_values(kind) + position_bonus(p)
  ELSE reward_values(kind)

\* recorded: the interaction the last record_interaction call stored, with
\* the value the call returned.
NoInteraction ==
  [interaction_type |-> "none", search_position |-> NoPosition,
   feedback_value |-> 0, returned |-> FALSE]

\* record_interaction: feedback_value is computed, then insert_one stores
\* the interaction, stamped utcnow().
record_interaction(rid, scored) ==
  LET same == {i \in 1..Len(interactions) :
                 /\ interactions[i].rid = rid
                 /\ interactions[i].scored = scored
                 /\ interactions[i].day = now}
  IN interactions' =
       IF same = {} THEN Append(interactions, Run(rid, scored, now, 1))
       ELSE [interactions EXCEPT ![CHOOSE i \in same : TRUE].n = @ + 1]

NewCount == CountFrom(interactions, 1, "none", 0, FALSE)

RecordInteraction(rid, scored, kind, p) ==
  /\ NewCount < MaxNew
  /\ record_interaction(rid, scored)
  /\ recorded' = [interaction_type |-> kind, search_position |-> p,
                  feedback_value |-> feedback_value(kind, p), returned |-> TRUE]
  /\ lret' = NoAnswer
  /\ UNCHANGED <<learning_weights, now>>
  /\ UNCHANGED coVars
  /\ UNCHANGED <<taskVars, vecVars, rankVars>>

\* if interaction_count > self.min_interactions_threshold:
\*     if interaction_count % 10 == 0:
\* The variant starts at the threshold itself.
should_retrain_AtThreshold(interaction_count) ==
  /\ interaction_count >= min_interactions_threshold
  /\ interaction_count % 10 = 0

should_retrain(interaction_count) ==
  /\ interaction_count > min_interactions_threshold
  /\ interaction_count % 10 = 0

\* update_weights_with_feedback(candidate_id, job_id, feedback_type,
\* search_scores): the interaction is built for recruiter "system" without
\* a search position and handed to record_interaction; scored: search_scores
\* holds all three component scores; fault "insert": insert_one raises, so
\* record_interaction returns False.  After a successful insert the
\* collection is counted and get_optimal_weights() is called, without
\* arguments, when should_retrain says so; it runs on the store that holds
\* the new interaction.  The call returns record_interaction's result.
update_weights_with_feedback(scored, kind, fault, fit) ==
  IF fault = "insert"
  THEN /\ recorded' = [interaction_type |-> kind, search_position |-> NoPosition,
                       feedback_value |-> feedback_value(kind, NoPosition),
                       returned |-> FALSE]
       /\ lret' = NoAnswer
       /\ UNCHANGED <<interactions, learning_weights, now>>
  ELSE /\ record_interaction("system", scored)
       /\ recorded' = [interaction_type |-> kind, search_position |-> NoPosition,
                       feedback_value |-> feedback_value(kind, NoPosition),
                       returned |-> TRUE]
       /\ UNCHANGED now
       /\ IF should_retrain(count_documents')
          THEN get_optimal_weights_on("none", "none", "none", count_documents',
                 learn_weights_from_interactions("none", "none", FALSE, fit)')
          ELSE /\ lret' = NoAnswer
               /\ UNCHANGED learning_weights

UpdateWeightsWithFeedback(scored, kind, fault) ==
  /\ NewCount < MaxNew
  /\ \E fit \in FitOutcomes : update_weights_with_feedback(scored, kind, fault, fit)
  /\ UNCHANGED coVars
  /\ UNCHANGED <<taskVars, vecVars, rankVars>>

Tick(d) ==
  /\ now + d <= MaxDay
  /\ now' = now + d
  /\ UNCHANGED <<interactions, learning_weights, lret, recorded>>
  /\ UNCHANGED coVars
  /\ UNCHANGED <<taskVars, vecVars, rankVars>>

\* _retrain_model_internal: LearningToRankEngine() is called without the db
\* argument its constructor requires, so the body raises TypeError before it
\* reads or writes anything; _update_optimal_weights is never reached.
retrain_model_internal == "TypeError"

RetrainModelInternal(cat, rid) ==
  /\ lret' = [NoAnswer EXCEPT !.op = "retrain_learning_model", !.cat = cat,
                              !.rid = rid, !.path = retrain_model_internal]
  /\ UNCHANGED <<interactions, learning_weights, now, recorded>>
  /\ UNCHANGED coVars
  /\ UNCHANGED <<taskVars, vecVars, rankVars>>

\* _periodic_retrain_internal: skipped below 20 interactions since
\* max(utcnow() - 24h, last_training.last_updated); otherwise it runs
\* _retrain_model_internal(force_retrain=True) and reports its exception.
periodic_retrain ==
  LET last == find_existing("none")
      cutoff == IF last = 0 THEN now - 1
                ELSE Max(now - 1, learning_weights[last].last_updated)
      new_interactions == CountFrom(interactions, 1, "none", cutoff, FALSE)
  IN IF new_interactions < 20 THEN "skipped" ELSE "failed"

PeriodicRetrain ==
  /\ lret' = [NoAnswer EXCEPT !.op = "periodic_retrain", !.path = periodic_retrain]
  /\ UNCHANGED <<interactions, learning_weights, now, recorded>>
  /\ UNCHANGED coVars
  /\ UNCHANGED <<taskVars, vecVars, rankVars>>

(***************************************************************************)
(* Calls that overlap on the event loop of the web process.  A coroutine   *)
(* runs until its next await; the steps below are the stretches between    *)
(* the awaits of one call.                                                 *)
(***************************************************************************)
NumCalls == 2

CallIds == 1..NumCalls

\* The training sample a call loaded: how many interactions the query
\* returned, how many of them carry all three scores, and the recruiter
\* filter of the query.
NoSample == [recent |-> 0, usable |-> 0, rid |-> "none"]

\* pc: "idle" not started, "inserted" update_weights_with_feedback after
\* its insert, "loaded" get_optimal_weights after the find of
\* _learn_weights_from_interactions, "fitted" before the insert of
\* _save_weights, "done" returned.  learned: the weights to save and
\* return; coef_from: the sample whose fit the returned weights and
\* confidence were read from.
IdleCall ==
  [pc |-> "idle", rid |-> "none", sample |-> NoSample, coef_from |-> NoSample,
   learned |-> DefaultLearningWeights @@ [learned_from |-> "none"]]

\* self.scaler and self.model: the sample each was last fitted on.
NoEngine == [scaler |-> NoSample, model |-> NoSample]

InitCalls ==
  /\ calls = [c \in CallIds |-> IdleCall]
  /\ engine = NoEngine
  /\ triggered = <<>>

\* update_weights_with_feedback up to the return of
\* await self.record_interaction(interaction).
FeedbackRecord(c, scored, kind) ==
  /\ calls[c].pc = "idle"
  /\ record_interaction("system", scored)
  /\ recorded' = [interaction_type |-> kind, search_position |-> NoPosition,
                  feedback_value |-> feedback_value(kind, NoPosition),
                  returned |-> TRUE]
  /\ calls' = [calls EXCEPT ![c].pc = "inserted"]
  /\ lret' = NoAnswer
  /\ UNCHANGED <<learning_weights, now, engine, triggered>>
  /\ UNCHANGED <<taskVars, vecVars, rankVars>>

\* update_weights_with_feedback from the return of
\* await ...count_documents({}) to its end: the count is the one the store
\* holds at this point, and get_optimal_weights() is called on it when
\* should_retrain says so.
FeedbackCount(c) ==
  /\ calls[c].pc = "inserted"
  /\ IF should_retrain(count_documents)
     THEN /\ \E fit \in FitOutcomes :
               get_optimal_weights_on("none", "none", "none", count_documents,
                 learn_weights_from_interactions("none", "none", FALSE, fit))
          /\ triggered' = Append(triggered, count_documents)
     ELSE /\ lret' = NoAnswer
          /\ UNCHANGED <<learning_weights, triggered>>
  /\ calls' = [calls EXCEPT ![c].pc = "done"]
  /\ UNCHANGED <<interactions, now, recorded, engine>>
  /\ UNCHANGED <<taskVars, vecVars, rankVars>>

\* self.model.fit(X_scaled, y): Ridge.fit discards any earlier fit.  The
\* variant keeps the first fit, as a warm-started estimator would.
model_fit_KeepFirst(eng, sample) ==
  IF eng.model = NoSample THEN sample ELSE eng.model

model_fit(eng, sample) == sample

\* get_optimal_weights(None, rid) on its retrain branch, up to the return
\* of await ...find(query).to_list(1000) in
\* _learn_weights_from_interactions: the store holds 50 interactions or
\* more and no fresh record.  The reads of find_one, count_documents and
\* find are taken at one point; they change no state.
GetOptimalWeightsLoad(c, rid) ==
  /\ calls[c].pc = "idle"
  /\ count_documents >= min_interactions_threshold
  /\ LET existing == find_existing("none")
     IN ~(existing # 0 /\ is_weights_fresh(learning_weights[existing]))
  /\ calls' = [calls EXCEPT
       ![c].pc = "loaded", ![c].rid = rid,
       ![c].sample = [recent |-> RecentCount(rid), usable |-> UsableCount(rid),
                      rid |-> rid]]
  /\ lret' = NoAnswer
  /\ UNCHANGED <<interactions, learning_weights, now, recorded, engine, triggered>>
  /\ UNCHANGED <<taskVars, vecVars, rankVars>>

\* _learn_weights_from_interactions from there to its return: the two
\* length tests, self.scaler.fit_transform(X), self.model.fit(X_scaled, y),
\* the read of self.model.coef_ and self.model.score(X_scaled, y).  No
\* await separates these lines, so they run as one step of the event loop.
GetOptimalWeightsFit(c) ==
  /\ calls[c].pc = "loaded"
  /\ LET sample == calls[c].sample
         fits == /\ sample.recent >= min_interactions_threshold
                 /\ sample.usable >= MinSamples
         fitted == [scaler |-> sample, model |-> model_fit(engine, sample)]
     IN /\ engine' = IF fits THEN fitted ELSE engine
        /\ \E fit \in FitOutcomes :
             calls' = [calls EXCEPT
               ![c].pc = "fitted",
               ![c].coef_from = IF fits THEN fitted.model ELSE NoSample,
               ![c].learned = learn_weights_on("none", sample.rid, FALSE, fit,
                                               sample.recent, sample.usable)]
  /\ lret' = NoAnswer
  /\ UNCHANGED <<interactions, learning_weights, now, recorded, triggered>>
  /\ UNCHANGED <<taskVars, vecVars, rankVars>>

\* await self._save_weights(learned_weights, job_category) and the return.
GetOptimalWeightsSave(c) ==
  /\ calls[c].pc = "fitted"
  /\ learning_weights' = save_weights(learning_weights, calls[c].learned, "none")
  /\ lret' = Answer("none", calls[c].rid, "none", calls[c].learned, "learned",
                    count_documents)
  /\ calls' = [calls EXCEPT ![c].pc = "done"]
  /\ UNCHANGED <<interactions, now, recorded, engine, triggered>>
  /\ UNCHANGED <<taskVars, vecVars, rankVars>>

\* Interaction histories the store may hold when the model starts: nothing;
\* 49 scored; 50 of which 5 are older than 30 days; 50 of which 9 are
\* scored; 55 spread over two recruiters.
InitialPopulations ==
  { <<>>,
    <<Run("r1", TRUE, Yesterday, 49)>>,
    <<Run("r1", TRUE, OldDay, 5), Run("r1", TRUE, Yesterday, 45)>>,
    <<Run("r1", FALSE, Yesterday, 41), Run("r1", TRUE, Yesterday, 9)>>,
    <<Run("r1", TRUE, Yesterday, 30), Run("system", TRUE, Yesterday, 25)>> }

InitLTRIdle ==
  /\ interactions = <<>>
  /\ learning_weights = <<>>
  /\ now = 0
  /\ lret = NoAnswer
  /\ recorded = NoInteraction
  /\ InitCalls

InitLTR ==
  /\ interactions \in InitialPopulations
  /\ learning_weights = <<>>
  /\ now = 0
  /\ lret = NoAnswer
  /\ recorded = NoInteraction
  /\ InitCalls

\* Interaction histories for SpecFeedback, chosen around the counts at which
\* update_weights_with_feedback decides: 49, 50, 58 and 59 recent scored
\* interactions, 59 of which 30 are older than 30 days, and 69.
FeedbackPopulations ==
  { <<Run("r1", TRUE, Yesterday, 49)>>,
    <<Run("r1", TRUE, Yesterday, 50)>>,
    <<Run("r1", TRUE, Yesterday, 58)>>,
    <<Run("r1", TRUE, Yesterday, 59)>>,
    <<Run("r1", TRUE, OldDay, 30), Run("r1", TRUE, Yesterday, 29)>>,
    <<Run("r1", FALSE, Yesterday, 60), Run("system", TRUE, Yesterday, 9)>> }

InitLTRFeedback ==
  /\ interactions \in FeedbackPopulations
  /\ learning_weights = <<>>
  /\ now = 0
  /\ lret = NoAnswer
  /\ recorded = NoInteraction
  /\ InitCalls

\* The scopes requested in SpecLTR: unscoped, by category, by category and
\* recruiter.
Scopes == {<<"none", "none">>, <<"c1", "none">>, <<"c1", "r1">>}

\* SpecLTR: requests over Scopes, no store failure.
NextLTR ==
  \/ \E sc \in Scopes : GetOptimalWeights(sc[1], sc[2], "none")
  \/ RecordInteraction("r1", TRUE, "click", NoPosition)
  \/ \E d \in DayJumps : Tick(d)
  \/ RetrainModelInternal("c1", "none")
  \/ PeriodicRetrain

\* SpecFault: one request scope, every store failure.
NextFault ==
  \/ \E fault \in Faults : GetOptimalWeights("none", "none", fault)
  \/ RecordInteraction("r1", TRUE, "click", NoPosition)
  \/ \E d \in DayJumps : Tick(d)
  \/ RetrainModelInternal("none", "none")
  \/ PeriodicRetrain

\* SpecScope: requests over Scopes as the days pass, the insert of
\* _save_weights succeeding or raising.
NextScope ==
  \/ \E sc \in Scopes, fault \in {"none", "save"} :
       GetOptimalWeights(sc[1], sc[2], fault)
  \/ \E d \in DayJumps : Tick(d)

\* SpecFeedback: update_weights_with_feedback over every interaction type,
\* with and without component scores, the insert succeeding or raising.
NextFeedback ==
  \/ \E scored \in BOOLEAN, kind \in InteractionTypes, fault \in {"none", "insert"} :
       UpdateWeightsWithFeedback(scored, kind, fault)
  \/ \E d \in DayJumps : Tick(d)

\* SpecRace: update_weights_with_feedback calls that overlap.
NextRace ==
  \/ \E c \in CallIds, scored \in BOOLEAN, kind \in {"click", "hire"} :
       FeedbackRecord(c, scored, kind)
  \/ \E c \in CallIds : FeedbackCount(c)

\* SpecEngine: get_optimal_weights calls that retrain and overlap on the
\* one engine, while interactions are recorded.
NextEngine ==
  \/ \E c \in CallIds, rid \in {"none", "r1"} : GetOptimalWeightsLoad(c, rid)
  \/ \E c \in CallIds : GetOptimalWeightsFit(c)
  \/ \E c \in CallIds : GetOptimalWeightsSave(c)
  \/ RecordInteraction("r1", TRUE, "click", NoPosition)

\* SpecReward: record_interaction over every interaction type and position.
NextReward ==
  \/ \E scored \in BOOLEAN, kind \in InteractionTypes,
        p \in {NoPosition} \cup 0..MaxPosition :
       RecordInteraction("r1", scored, kind, p)

(***************************************************************************)
(* FAISSService: the in-memory index, its metadata map, the two files      *)
(***************************************************************************)


MaxVec == 2
MaxBatch == 2
MaxK == 3

\* self.index: None, or an IndexFlatIP of dimension d holding rows; row r
\* (1-based here) has the FAISS id r - 1.
NoIndex == [exists |-> FALSE, d |-> 0, rows |-> <<>>]

NoFile == [exists |-> FALSE, d |-> 0, rows |-> <<>>, map |-> {}]

ntotal(ix) == Len(ix.rows)

\* str(id): the metadata map and its JSON file are keyed by decimal strings.
Digit(i) == CASE i = 0 -> "0" [] i = 1 -> "1" [] i = 2 -> "2" [] i = 3 -> "3"
              [] i = 4 -> "4" [] i = 5 -> "5" [] i = 6 -> "6" [] i = 7 -> "7"
              [] i = 8 -> "8" [] i = 9 -> "9"

str(i) == IF i < 10 THEN Digit(i) ELSE Digit(i \div 10) \o Digit(i % 10)

\* Raw vectors callers pass in, by dimension.
RawVectors == {<<2>>, <<0, 0>>, <<3, 4>>}

\* floor(sqrt(n)) by bisection on lo..hi.
RECURSIVE Bisect(_, _, _)
Bisect(n, lo, hi) ==
  IF lo = hi THEN lo
  ELSE LET mid == (lo + hi + 1) \div 2
       IN IF mid * mid <= n THEN Bisect(n, mid, hi) ELSE Bisect(n, lo, mid - 1)

ISqrt(n) == Bisect(n, 0, 10000)

\* _normalize for one row: x / ||x||, with a zero norm replaced by 1.0.
\* Components are kept in thousandths.
normalize(x) ==
  LET sumsq == IF Len(x) = 1 THEN x[1] * x[1] ELSE x[1] * x[1] + x[2] * x[2]
      norm == ISqrt(sumsq * 1000000)
  IN [i \in 1..Len(x) |->
        IF norm = 0 THEN x[i] * 1000 ELSE (x[i] * 1000000) \div norm]

\* A 2-D array [n, d]: n rows of one dimension.
Batches ==
  {b \in UNION {[1..n -> RawVectors] : n \in 1..MaxBatch} :
     \A i \in 1..Len(b) : Len(b[i]) = Len(b[1])}

\* range(start_id, start_id + n); the variant numbers every batch from 0.
ids_FromZero(start_id, n) == [i \in 1..n |-> i - 1]

ids(start_id, n) == [i \in 1..n |-> start_id + i - 1]

\* The metadata object a caller attaches to a vector: it names the entity
\* the vector was computed from.
MetaOf(x) == CASE x = <<2>> -> "a" [] x = <<0, 0>> -> "b" [] x = <<3, 4>> -> "c"

\* for i, m in enumerate(metadata_list): self.metadata[str(ids[i])] = m
\* over the first count entries.
set_metadata(meta, idseq, metas, count) ==
  LET keys == {str(idseq[i]) : i \in 1..count}
  IN [k \in (DOMAIN meta) \cup keys |->
        IF k \in keys
        THEN metas[CHOOSE i \in 1..count : str(idseq[i]) = k]
        ELSE meta[k]]

\* issued (history): for every id some add_vectors call has returned, the
\* vector it was returned for (first[id + 1], <<>> while the id was never
\* returned), and whether any id was returned a second time.
\* lost: a reload dropped a vector whose id had been returned.
NothingIssued ==
  [first |-> [i \in 1..(MaxVec + 1) |-> <<>>], twice |-> FALSE, lost |-> FALSE]

Issue(h, idseq, vecs) ==
  [first |-> [i \in 1..(MaxVec + 1) |->
                IF h.first[i] = <<>> /\ \E j \in 1..Len(idseq) : idseq[j] = i - 1
                THEN vecs[CHOOSE j \in 1..Len(idseq) : idseq[j] = i - 1]
                ELSE h.first[i]],
   twice |-> h.twice \/ \E j \in 1..Len(idseq) : h.first[idseq[j] + 1] # <<>>,
   lost |-> h.lost]

\* vret: the outcome of the last FAISSService call; k, threshold and hits
\* are those of a search call.
VResult(op, outcome, idseq) ==
  [op |-> op, outcome |-> outcome, ids |-> idseq, k |-> 0, threshold |-> 0,
   hits |-> <<>>]

\* add_vectors(vectors, metadata_list) for a non-empty 2-D batch; ml is
\* len(metadata_list), entry i describing row i.
\*  - _ensure_index creates an IndexFlatIP(d) when self.index is None;
\*  - index.add rejects a batch whose dimension is not index.d;
\*  - a metadata_list longer than the batch raises IndexError at ids[i],
\*    after index.add and after the first n metadata entries were stored.
add_vectors(batch, ml) ==
  LET d == Len(batch[1])
      n == Len(batch)
      ix == IF index.exists THEN index ELSE [exists |-> TRUE, d |-> d, rows |-> <<>>]
      start_id == ntotal(ix)
      newids == ids(start_id, n)
      vecs == [i \in 1..n |-> normalize(batch[i])]
      metas == [i \in 1..n |-> MetaOf(batch[i])]
  IN /\ dimensions' = IF index.exists THEN dimensions ELSE d
     /\ IF ix.d # d
        THEN /\ index' = ix
             /\ UNCHANGED <<metadata, issued>>
             /\ vret' = VResult("add_vectors", "AssertionError", <<>>)
        ELSE /\ index' = [ix EXCEPT !.rows = @ \o vecs]
             /\ metadata' = set_metadata(metadata, newids, metas, Min(ml, n))
             /\ IF ml > n
                THEN /\ vret' = VResult("add_vectors", "IndexError", <<>>)
                     /\ UNCHANGED issued
                ELSE /\ vret' = VResult("add_vectors", "ok", newids)
                     /\ issued' = Issue(issued, newids, vecs)

AddVectors(batch, ml) ==
  /\ ntotal(index) + Len(batch) <= MaxVec
  /\ add_vectors(batch, ml)
  /\ UNCHANGED <<index_file, meta_file>>
  /\ UNCHANGED <<taskVars, ltrVars, rankVars>>

\* add_vectors with vectors None or of size 0 returns []; with a 1-D array
\* it raises ValueError.  Neither touches the instance.
AddRejected(shape) ==
  /\ vret' = VResult("add_vectors",
                     IF shape = "empty" THEN "ok" ELSE "ValueError", <<>>)
  /\ UNCHANGED <<index, dimensions, metadata, index_file, meta_file, issued>>
  /\ UNCHANGED <<taskVars, ltrVars, rankVars>>

\* Query vectors and thresholds of search; scores are inner products of
\* vectors kept in thousandths, so 1000000 is a cosine of 1.0.
Queries == {<<2>>, <<3, 4>>, <<4, 3>>, <<0 - 3, 0 - 4>>}
Thresholds == {0, 970000}

Dot(a, b) == IF Len(a) = 1 THEN a[1] * b[1] ELSE a[1] * b[1] + a[2] * b[2]

\* The label and distance IndexFlatIP.search gives a result slot it cannot
\* fill: -1, and a distance below every inner product.
NoLabel == 0 - 1
NoScore == 0 - 2000000

\* IndexFlatIP.search(q, k) for one query row: the k rows of largest inner
\* product, largest first, padded when k > ntotal.  Rows of equal inner
\* product come in an order the library does not fix.
faiss_search(ix, q, k) ==
  LET n == ntotal(ix)
      score(r) == Dot(q, ix.rows[r])
      orders == {o \in [1..n -> 1..n] :
                   /\ \A i, j \in 1..n : i # j => o[i] # o[j]
                   /\ \A i, j \in 1..n : i < j => score(o[i]) >= score(o[j])}
  IN {[s \in 1..k |-> IF s <= n THEN [id |-> o[s] - 1, score |-> score(o[s])]
                      ELSE [id |-> NoLabel, score |-> NoScore]] : o \in orders}

\* if float(score) < float(threshold): continue.  The variant keeps every
\* hit.
below_threshold_Never(score, threshold) == FALSE

below_threshold(score, threshold) == score < threshold

\* search(query, k, threshold) for a 1-D query.
\*  - no index, or an index with ntotal == 0: [];
\*  - index.search asserts d == index.d and k > 0;
\*  - slots with label -1 and slots scoring below threshold are skipped.
search(query, k, threshold) ==
  IF ~index.exists \/ ntotal(index) = 0
  THEN vret' = [VResult("search", "ok", <<>>) EXCEPT
                  !.k = k, !.threshold = threshold]
  ELSE IF Len(query) # index.d \/ k < 1
  THEN vret' = [VResult("search", "AssertionError", <<>>) EXCEPT
                  !.k = k, !.threshold = threshold]
  ELSE \E found \in faiss_search(index, normalize(query), k) :
         LET kept(h) == h.id # NoLabel /\ ~below_threshold(h.score, threshold)
         IN vret' = [VResult("search", "ok", <<>>) EXCEPT
                       !.k = k, !.threshold = threshold,
                       !.hits = SelectSeq(found, kept)]

Search(query, k, threshold) ==
  /\ search(query, k, threshold)
  /\ UNCHANGED <<index, dimensions, metadata, index_file, meta_file, issued>>
  /\ UNCHANGED <<taskVars, ltrVars, rankVars>>

\* json.dump of the metadata map: the file holds one key/value member per
\* entry; json.load builds the map back from the members.
json_dump(meta) == {<<k, meta[k]>> : k \in DOMAIN meta}

json_load(text) ==
  [k \in {p[1] : p \in text} |-> (CHOOSE p \in text : p[1] = k)[2]]

\* save(): write_index and json.dump of the metadata, only when an index
\* exists.  The variant writes the index and leaves the metadata file alone.
save_IndexOnly ==
  IF index.exists
  THEN /\ index_file' = [exists |-> TRUE, d |-> index.d, rows |-> index.rows,
                         map |-> {}]
       /\ meta_file' = IF meta_file.exists THEN meta_file
                       ELSE [exists |-> TRUE, d |-> 0, rows |-> <<>>, map |-> {}]
  ELSE UNCHANGED <<index_file, meta_file>>

save ==
  IF index.exists
  THEN /\ index_file' = [exists |-> TRUE, d |-> index.d, rows |-> index.rows,
                         map |-> {}]
       /\ meta_file' = [exists |-> TRUE, d |-> 0, rows |-> <<>>,
                        map |-> json_dump(metadata)]
  ELSE UNCHANGED <<index_file, meta_file>>

Save ==
  /\ save
  /\ vret' = VResult("save", "ok", <<>>)
  /\ UNCHANGED <<index, dimensions, metadata, issued>>
  /\ UNCHANGED <<taskVars, ltrVars, rankVars>>

\* A fresh FAISSService(index_path, metadata_path) followed by initialize().
\* fault: "index" read_index raises, "meta" json.load raises; the except
\* branch sets self.index = None.
initialize(fault) ==
  IF ~index_file.exists
  THEN /\ index' = NoIndex /\ dimensions' = 0 /\ metadata' = <<>>
  ELSE IF fault = "index"
  THEN /\ index' = NoIndex /\ dimensions' = 0 /\ metadata' = <<>>
  ELSE IF fault = "meta" /\ meta_file.exists
  THEN /\ index' = NoIndex /\ dimensions' = index_file.d /\ metadata' = <<>>
  ELSE /\ index' = [exists |-> TRUE, d |-> index_file.d, rows |-> index_file.rows]
       /\ dimensions' = index_file.d
       /\ metadata' = IF meta_file.exists THEN json_load(meta_file.map) ELSE <<>>

Initialize(fault) ==
  /\ initialize(fault)
  /\ vret' = VResult("initialize", fault, <<>>)
  /\ issued' = [issued EXCEPT !.lost =
       @ \/ \E i \in 1..(MaxVec + 1) :
              issued.first[i] # <<>> /\ i > ntotal(index')]
  /\ UNCHANGED <<index_file, meta_file>>
  /\ UNCHANGED <<taskVars, ltrVars, rankVars>>

\* _update_faiss_for_candidate in the task worker: FAISSService() is called
\* without index_path and metadata_path, so it raises TypeError before
\* add_vectors and save; the except branch logs it and returns False.
update_faiss_for_candidate == "TypeError"

UpdateFaissForCandidate ==
  /\ vret' = VResult("update_faiss_for_candidate", update_faiss_for_candidate, <<>>)
  /\ UNCHANGED <<index, dimensions, metadata, index_file, meta_file, issued>>
  /\ UNCHANGED <<taskVars, ltrVars, rankVars>>

InitVecIdle ==
  /\ index = NoIndex
  /\ dimensions = 0
  /\ metadata = <<>>
  /\ index_file = NoFile
  /\ meta_file = NoFile
  /\ issued = NothingIssued
  /\ vret = VResult("none", "none", <<>>)

NextVector ==
  \/ \E b \in Batches, ml \in 0..(MaxBatch + 1) :
       ml <= Len(b) + 1 /\ AddVectors(b, ml)
  \/ \E shape \in {"empty", "1-D"} : AddRejected(shape)
  \/ Save
  \/ Initialize("none")

\* SpecRestart: the writers of the two files: the web process, which adds,
\* saves and is restarted with a load that succeeds or raises, and the task
\* worker.
NextRestart ==
  \/ \E b \in Batches : AddVectors(b, Len(b))
  \/ Save
  \/ \E fault \in {"none", "index", "meta"} : Initialize(fault)
  \/ UpdateFaissForCandidate

\* Searches between additions of fully described batches, and a restart
\* without files, which leaves the instance without an index.
NextSearch ==
  \/ \E b \in Batches : AddVectors(b, Len(b))
  \/ Initialize("none")
  \/ \E q \in Queries, k \in 0..MaxK, th \in Thresholds : Search(q, k, th)

Next ==
  \/ \E t \in TaskIds, k \in Kinds, u \in Users : StartTask(t, k, u)
  \/ \E t \in TaskIds : TaskStart(t)
  \/ \E t \in TaskIds : DiscardRevoked(t)
  \/ \E t \in TaskIds : BodyStep(t)
  \/ \E t \in TaskIds, e \in Errors : BodyRaise(t, e)
  \/ \E t \in TaskIds : HandleRetry(t)
  \/ \E t \in TaskIds : HandleFailure(t)
  \/ \E t \in TaskIds : TaskReturn(t)
  \/ \E t \in TaskIds : OnSuccess(t)
  \/ \E t \in TaskIds : Terminate(t)
  \/ \E t \in TaskIds : WorkerLost(t)
  \/ \E t \in TaskIds : GetTaskStatus(t)
  \/ \E t \in TaskIds, u \in Users : CancelTask(t, u)

(***************************************************************************)
(* Candidate search: the /search endpoint and the search task body         *)
(***************************************************************************)
MaxPool == 3
MaxTop == 4

\* The three scores of a candidate against the job, in thousandths; two of
\* the profiles have the same total under the fixed weights.
Profiles == {<<1000, 0, 0>>, <<0, 1000, 0>>, <<500, 500, 1000>>, <<0, 0, 0>>}

\* Weights in use: the fixed fallback, or a set the learning engine gave.
WeightSets == {default_weights, <<600, 200, 200>>}

\* total_score = semantic * w['semantic'] + skill * w['skill']
\*               + experience * w['experience']; the variant adds the three
\* scores without their weights.
total_score_Unweighted(c, w) == c[1] + c[2] + c[3]

total_score(c, w) == c[1] * w[1] + c[2] * w[2] + c[3] * w[3]

\* score_breakdown: the three weights the total was computed with.
score_breakdown(w) ==
  [semantic_weight |-> w[1], skill_overlap_weight |-> w[2],
   experience_weight |-> w[3]]

\* The scores of candidate i of the pool, as MatchResult and the dict of
\* _calculate_candidate_scores carry them.
scores_of(pool, i, w) ==
  [id |-> i, total_score |-> total_score(pool[i], w),
   semantic_score |-> pool[i][1], skill_overlap_score |-> pool[i][2],
   experience_match_score |-> pool[i][3],
   score_breakdown |-> score_breakdown(w)]

\* matches after the scoring loop: one entry per candidate, in the order
\* find() returned them; id is the place in that order.
scored(pool, w) == [i \in 1..Len(pool) |-> scores_of(pool, i, w)]

\* list.sort(key=total_score, reverse=True): a stable sort, entries of equal
\* key keep their order.  Built by inserting each entry behind every entry
\* whose key is at least its own.
RECURSIVE sort_reverse(_)
sort_reverse(ms) ==
  IF ms = <<>> THEN <<>>
  ELSE LET done == sort_reverse(SubSeq(ms, 1, Len(ms) - 1))
           x == ms[Len(ms)]
           c == Cardinality({i \in 1..Len(done) :
                               done[i].total_score >= x.total_score})
       IN SubSeq(done, 1, c) \o <<x>> \o SubSeq(done, c + 1, Len(done))

\* matches[:k]; a negative k drops entries from the end.
slice(ms, k) ==
  IF k >= 0 THEN SubSeq(ms, 1, Min(k, Len(ms)))
  ELSE SubSeq(ms, 1, Max(0, Len(ms) + k))

\* sret: the outcome of the last search; scores holds every score set the
\* call computed, matches what it returned.
NoSearch ==
  [op |-> "none", k |-> 0, outcome |-> "none", matches |-> <<>>,
   scores |-> <<>>]

(***************************************************************************)
(* Scoring functions of server.py                                          *)
(***************************************************************************)
MaxSkills == 2
MaxYears == 3

\* Skill strings as they arrive, and str.lower() on them.
SkillNames == {"python", "Python", "py", "aws", "react"}

lower(name) == IF name = "Python" THEN "python" ELSE name

SkillLists == UNION {[1..n -> SkillNames] : n \in 0..MaxSkills}

\* A float quotient a / b, kept exact as the pair of its operands.
Ratio(a, b) == [num |-> a, den |-> b]

One == Ratio(1, 1)

\* computed: a call of a scoring function, its arguments and, once the
\* call was made, its value.
NoCall == [op |-> "none", args |-> <<>>, value |-> Ratio(0, 1)]

\* calculate_skill_overlap; the variant divides by the length of the list.
calculate_skill_overlap_ByLength(candidate_skills, job_skills) ==
  IF job_skills = <<>> THEN One
  ELSE LET candidate_set ==
             {lower(candidate_skills[i]) : i \in 1..Len(candidate_skills)}
           job_set == {lower(job_skills[i]) : i \in 1..Len(job_skills)}
           overlap == Cardinality(candidate_set \cap job_set)
       IN Ratio(overlap, Len(job_skills))

calculate_skill_overlap(candidate_skills, job_skills) ==
  IF job_skills = <<>> THEN One
  ELSE LET candidate_set ==
             {lower(candidate_skills[i]) : i \in 1..Len(candidate_skills)}
           job_set == {lower(job_skills[i]) : i \in 1..Len(job_skills)}
           overlap == Cardinality(candidate_set \cap job_set)
       IN IF job_set # {} THEN Ratio(overlap, Cardinality(job_set))
          ELSE Ratio(0, 1)

CalculateSkillOverlap ==
  /\ computed.op = "none" /\ computed.args[1] = "skills"
  /\ computed' = [computed EXCEPT
       !.op = "calculate_skill_overlap",
       !.value = calculate_skill_overlap(computed.args[2], computed.args[3])]
  /\ UNCHANGED <<db_candidates, sret>>
  /\ UNCHANGED <<taskVars, ltrVars, vecVars>>

\* Years of experience as the two int fields hold them.
Years == (0 - 1)..MaxYears

\* calculate_experience_match; the variant does not cap the quotient.
calculate_experience_match_Uncapped(candidate_years, required_years) ==
  IF required_years <= 0 THEN One
  ELSE Ratio(candidate_years, required_years)

calculate_experience_match(candidate_years, required_years) ==
  IF required_years <= 0 THEN One
  ELSE IF candidate_years >= required_years THEN One
  ELSE Ratio(candidate_years, required_years)

CalculateExperienceMatch ==
  /\ computed.op = "none" /\ computed.args[1] = "years"
  /\ computed' = [computed EXCEPT
       !.op = "calculate_experience_match",
       !.value = calculate_experience_match(computed.args[2], computed.args[3])]
  /\ UNCHANGED <<db_candidates, sret>>
  /\ UNCHANGED <<taskVars, ltrVars, vecVars>>

\* SKILLS_MAPPING: the canonical name of a lower-case variation, or the
\* name itself when no entry lists it.
canonical(name) == IF name = "py" THEN "python" ELSE name

\* set(list) and list(set): the elements once each, in an order the
\* language does not fix.
set(xs) == {xs[i] : i \in 1..Len(xs)}

RECURSIVE list(_)
list(S) ==
  IF S = {} THEN <<>>
  ELSE LET x == CHOOSE y \in S : TRUE IN <<x>> \o list(S \ {x})

\* normalize_skills: lower-case, canonical name, once each.
normalize_skills(skills_list) ==
  list({canonical(lower(skills_list[i])) : i \in 1..Len(skills_list)})

\* extract_skills_from_text: the canonical names whose variations occur in
\* the lower-cased text; the text is given by the skill words in it.
extract_skills_from_text(text) ==
  list({canonical(lower(text[i])) : i \in 1..Len(text)})

\* AdvancedResumeParser.extract_normalized_skills: the parsed skill entries,
\* lower-cased, once each.
extract_normalized_skills(parsed) ==
  list({lower(parsed[i]) : i \in 1..Len(parsed)})

\* Step 3 of upload_resume and of _process_resume_internal: the skills of the
\* candidate record.  skills: the entries of the comma-separated form field;
\* found: the skills the LLM parse lists, or the skill words of the text.
\* On the LLM path the form entries are added as typed.
final_skills(parsing, skills, found) ==
  IF parsing = "llm"
  THEN IF skills # <<>>
       THEN list(set(extract_normalized_skills(found) \o skills))
       ELSE extract_normalized_skills(found)
  ELSE normalize_skills(list(set(skills \o extract_skills_from_text(found))))

\* POST /upload-resume: Candidate(skills=final_skills) is inserted.
UploadResume ==
  /\ computed.op = "none" /\ computed.args[1] = "resume"
  /\ computed' = [computed EXCEPT
       !.op = "upload_resume",
       !.value = final_skills(computed.args[2], computed.args[3],
                              computed.args[4])]
  /\ UNCHANGED <<db_candidates, sret>>
  /\ UNCHANGED <<taskVars, ltrVars, vecVars>>

\* The resume task: the same step 3 before its insert_one.
ProcessResumeInternal ==
  /\ computed.op = "none" /\ computed.args[1] = "resume"
  /\ computed' = [computed EXCEPT
       !.op = "process_resume_internal",
       !.value = final_skills(computed.args[2], computed.args[3],
                              computed.args[4])]
  /\ UNCHANGED <<db_candidates, sret>>
  /\ UNCHANGED <<taskVars, ltrVars, vecVars>>

\* POST /job: JobPosting(required_skills=normalize_skills(...)) is inserted.
CreateJobPosting ==
  /\ computed.op = "none" /\ computed.args[1] = "job"
  /\ computed' = [computed EXCEPT
       !.op = "create_job_posting",
       !.value = normalize_skills(computed.args[2])]
  /\ UNCHANGED <<db_candidates, sret>>
  /\ UNCHANGED <<taskVars, ltrVars, vecVars>>

\* The argument lists the scoring and ingestion functions are called with.
Inputs ==
  {<<"skills", cs, js>> : cs \in SkillLists, js \in SkillLists}
    \cup {<<"years", cy, ry>> : cy \in Years, ry \in Years}
    \cup {<<"resume", parsing, skills, found>> :
            parsing \in {"basic", "llm"}, skills \in SkillLists,
            found \in SkillLists}
    \cup {<<"job", required_skills>> : required_skills \in SkillLists}

InitInputs ==
  /\ db_candidates = <<>>
  /\ sret = NoSearch
  /\ computed \in {[NoCall EXCEPT !.args = a] : a \in Inputs}

NextScore ==
  \/ CalculateSkillOverlap
  \/ CalculateExperienceMatch
  \/ UploadResume
  \/ ProcessResumeInternal
  \/ CreateJobPosting

InitRank ==
  /\ db_candidates = <<>>
  /\ sret = NoSearch
  /\ computed = NoCall

\* db.candidates.insert_one(candidate.dict()) of the resume upload.
InsertCandidate(c) ==
  /\ Len(db_candidates) < MaxPool
  /\ db_candidates' = Append(db_candidates, c)
  /\ sret' = NoSearch
  /\ UNCHANGED computed
  /\ UNCHANGED <<taskVars, ltrVars, vecVars>>

\* GET /search: [] without candidates, else score, sort, matches[:k].
search_candidates(k, w) ==
  sret' = [op |-> "search_candidates", k |-> k, outcome |-> "ok",
           matches |-> slice(sort_reverse(scored(db_candidates, w)), k),
           scores |-> scored(db_candidates, w)]

SearchCandidates(k, w) ==
  /\ search_candidates(k, w)
  /\ UNCHANGED <<db_candidates, computed>>
  /\ UNCHANGED <<taskVars, ltrVars, vecVars>>

\* _search_candidates_internal of the search task: an empty result without
\* candidates; with candidates the first pass of the scoring loop calls
\* MatchResult.from_candidate_and_scores(experience_score=...,
\* blind_screening=...), a TypeError, and the sort is never reached.  The
\* scores of that first candidate were computed before the call.
search_candidates_internal(k, w) ==
  sret' = IF db_candidates = <<>>
          THEN [op |-> "search_candidates_async", k |-> k, outcome |-> "ok",
                matches |-> <<>>, scores |-> <<>>]
          ELSE [op |-> "search_candidates_async", k |-> k,
                outcome |-> "TypeError", matches |-> <<>>,
                scores |-> <<scores_of(db_candidates, 1, w)>>]

SearchCandidatesAsync(k, w) ==
  /\ search_candidates_internal(k, w)
  /\ UNCHANGED <<db_candidates, computed>>
  /\ UNCHANGED <<taskVars, ltrVars, vecVars>>

NextRank ==
  \/ \E c \in Profiles : InsertCandidate(c)
  \/ \E k \in (0 - 1)..MaxTop, w \in WeightSets : SearchCandidates(k, w)
  \/ \E k \in (0 - 1)..MaxTop, w \in WeightSets : SearchCandidatesAsync(k, w)

\* create_task called again and again while earlier records are polled or
\* cancelled by their owner or by somebody else.
NextCreate ==
  \/ \E k \in Kinds, u \in Users, m \in Metas : CreateTask(k, u, m)
  \/ \E u \in Users : CancelTask("t1", u)
  \/ \E u \in Users, k \in {"None", "resume", "search"},
          l \in (0 - 1)..MaxLimit :
       GetUserTasks(u, k, l)

vars == <<store, celery, wk, candidates, ret, interactions, learning_weights,
          now, lret, recorded, calls, engine, triggered, index, dimensions, metadata, index_file, meta_file,
          issued, vret, db_candidates, sret, computed>>

\* No task, no interaction, no learned record, no index and no file.
Init == InitTasks /\ InitLTRIdle /\ InitVecIdle /\ InitRank

\* The same with recruiter_interactions already populated.
InitPopulated == InitTasks /\ InitLTR /\ InitVecIdle /\ InitRank

\* Nothing anywhere, and one call of a scoring function about to be made.
InitScore == InitTasks /\ InitLTRIdle /\ InitVecIdle /\ InitInputs

Spec == Init /\ [][Next]_vars

SpecLTR == InitPopulated /\ [][NextLTR]_vars

SpecFault == InitPopulated /\ [][NextFault]_vars

SpecScope == InitPopulated /\ [][NextScope]_vars

InitFeedback == InitTasks /\ InitLTRFeedback /\ InitVecIdle /\ InitRank

SpecFeedback == InitFeedback /\ [][NextFeedback]_vars

SpecRace == InitFeedback /\ [][NextRace]_vars

SpecEngine == InitPopulated /\ [][NextEngine]_vars

SpecReward == Init /\ [][NextReward]_vars

SpecCreate == Init /\ [][NextCreate]_vars

SpecVec == Init /\ [][NextVector]_vars

SpecSearch == Init /\ [][NextSearch]_vars

SpecRestart == Init /\ [][NextRestart]_vars

SpecRank == Init /\ [][NextRank]_vars

SpecScore == InitScore /\ [][NextScore]_vars

(***************************************************************************)
(* Properties.                                                              *)
(***************************************************************************)

\* C1 (as stated): once a task's stored status is success, failure or
\* revoked, no later step changes it.
C1_TerminalStatusIsFinal ==
  [][\A t \in TaskIds :
       store[t].status \in {"success", "failure", "revoked"}
         => store'[t].status = store[t].status]_vars

\* C2: cancel_task returns False and leaves the record as it was when the
\* record does not exist, was created by another user, or already holds a
\* terminal status.
C2_CancelRefused ==
  [][\A t \in TaskIds :
       (/\ ret'.op = "cancel_task"
        /\ \/ ~store[t].exists
           \/ store[t].created_by # ret'.user
           \/ store[t].status \in {"success", "failure", "revoked"})
         => (ret'.value = "False" /\ store'[t] = store[t])]_vars

\* C2 witness: the owner's cancel of a task that already succeeded was refused.
C2_Witness ==
  \E t \in TaskIds :
    /\ ret.op = "cancel_task" /\ ret.value = "False"
    /\ store[t].status = "success"
    /\ ret.user = store[t].created_by

C4_DefaultBelowThreshold ==
  (lret.op = "get_optimal_weights" /\ CountFrom(interactions, 1, "none", OldDay, FALSE) < 50)
    => /\ lret.weights.semantic_weight = 400
       /\ lret.weights.skill_weight = 400
       /\ lret.weights.experience_weight = 200

\* C4 witness: a call scoped to a category and a recruiter was answered with
\* 49 interactions stored.
C4_Witness ==
  /\ lret.op = "get_optimal_weights" /\ lret.cat = "c1" /\ lret.rid = "r1"
  /\ CountFrom(interactions, 1, "none", OldDay, FALSE) = 49
  /\ lret.weights.semantic_weight = 400

C6_AtMostOneCandidate ==
  \A t \in TaskIds : candidates[t] <= 1

\* C7: when get_task_status saw the worker runtime report SUCCESS, FAILURE or
\* REVOKED for a record whose stored status was not terminal, the stored
\* status is the matching terminal status and the call returned it.
C7_WriteThrough ==
  \A t \in TaskIds :
    (/\ ret.op = "get_task_status"
     /\ ret.seen \in {"SUCCESS", "FAILURE", "REVOKED"}
     /\ ret.before \notin {"none", "success", "failure", "revoked"})
      => LET final == CASE ret.seen = "SUCCESS" -> "success"
                        [] ret.seen = "FAILURE" -> "failure"
                        [] ret.seen = "REVOKED" -> "revoked"
         IN store[t].status = final /\ ret.value = final

\* C7 witness: the runtime reported SUCCESS while the record still said
\* progress, and the call brought the record to success.
C7_Witness ==
  \E t \in TaskIds :
    /\ ret.op = "get_task_status" /\ ret.seen = "SUCCESS"
    /\ ret.before = "progress"
    /\ store[t].status = "success" /\ ret.value = "success"

C9_BoundedRetries ==
  \A t \in TaskIds :
    LET bound == CASE store[t].task_type \in {"resume", "embedding"} -> 3
                   [] store[t].task_type \in {"search", "reembed", "retrain"} -> 2
                   [] OTHER -> 0
    IN /\ wk[t].retries <= bound
       /\ celery[t] = "FAILURE"
            => /\ wk[t].retries = bound
               /\ wk[t].msg \notin {"queued", "running", "raised"}
               /\ store[t].status = "failure"

\* C9 witness: a search task failed for good after its two retries.
C9_Witness ==
  \E t \in TaskIds :
    /\ celery[t] = "FAILURE" /\ store[t].task_type = "search"
    /\ wk[t].retries = 2 /\ store[t].status = "failure"

C12_WeightsSumToOne ==
  lret.op = "get_optimal_weights"
    => LET total == lret.weights.semantic_weight + lret.weights.skill_weight
                      + lret.weights.experience_weight
       IN total - 1000 < 10 /\ 1000 - total < 10

\* C12 witness: a call returned a cached record whose learned thirds do not
\* add up exactly.
C12_Witness ==
  /\ lret.op = "get_optimal_weights" /\ lret.path = "cached"
  /\ lret.weights.semantic_weight = 333
  /\ lret.weights.skill_weight = 333
  /\ lret.weights.experience_weight = 333

\* C13 (as stated): a get_optimal_weights call during which a store read,
\* the fit or the insert failed still returns, and what it returns is the
\* default triple or a record that is stored.
C13_FailureReturnsDefaultOrCached ==
  (lret.op = "get_optimal_weights" /\ lret.fault \in {"load", "learn", "save"})
    => \/ /\ lret.weights.semantic_weight = 400
          /\ lret.weights.skill_weight = 400
          /\ lret.weights.experience_weight = 200
       \/ \E i \in 1..Len(learning_weights) : learning_weights[i] = lret.weights

\* C14: record_interaction stores the base reward of the interaction type
\* (click 0.1, shortlist 0.3, application 0.7, interview 0.9, hire 1.0,
\* reject -0.5) plus max(0, (10 - p) / 10 * 0.2) when a position p was
\* recorded, and the base reward alone otherwise.
C14_Reward ==
  recorded.interaction_type # "none"
    => LET base == CASE recorded.interaction_type = "click" -> 100
                     [] recorded.interaction_type = "shortlist" -> 300
                     [] recorded.interaction_type = "application" -> 700
                     [] recorded.interaction_type = "interview" -> 900
                     [] recorded.interaction_type = "hire" -> 1000
                     [] recorded.interaction_type = "reject" -> 0 - 500
           p == recorded.search_position
           bonus == IF p = 0 - 1 THEN 0
                    ELSE IF (10 - p) * 20 > 0 THEN (10 - p) * 20 ELSE 0
       IN recorded.feedback_value = base + bonus

\* C14 witness: a shortlist at position 4 was stored with reward 0.42.
C14_Witness ==
  /\ recorded.interaction_type = "shortlist" /\ recorded.search_position = 4
  /\ recorded.feedback_value = 420 /\ recorded.returned

\* C15 (as stated): a hire recorded at search position 1 is stored with
\* reward 1.2.
C15_HireAtOneIsOnePointTwo ==
  (recorded.interaction_type = "hire" /\ recorded.search_position = 1)
    => recorded.feedback_value = 1200

\* C15 (amended): a hire recorded at search position 1 is stored with
\* reward 1.18, and one recorded at position 0 with reward 1.2; no clamp is
\* applied.
C15_HireAtOneIsOnePointOneEight ==
  /\ (recorded.interaction_type = "hire" /\ recorded.search_position = 1)
       => recorded.feedback_value = 1180
  /\ (recorded.interaction_type = "hire" /\ recorded.search_position = 0)
       => recorded.feedback_value = 1200

\* C15 witness: a hire at position 1 was stored.
C15_Witness ==
  /\ recorded.interaction_type = "hire" /\ recorded.search_position = 1
  /\ recorded.returned /\ recorded.feedback_value > 1000

\* C16 (as stated): when fewer than 50 interactions are stored, the
\* interaction_count of the weights get_optimal_weights returns is the
\* number of interactions stored.
C16_CountReflectsStore ==
  (/\ lret.op = "get_optimal_weights"
   /\ CountFrom(interactions, 1, "none", OldDay, FALSE) < 50)
    => lret.weights.interaction_count
         = CountFrom(interactions, 1, "none", OldDay, FALSE)

\* C17: cancel_task called by the owner on a record whose status is not
\* success, failure or revoked, when neither the revoke request nor the store
\* write fails, leaves the record revoked with a non-empty error text and a
\* completion time, and returns True.
C17_OwnerCancelRevokes ==
  [][\A t \in TaskIds :
       (/\ ret'.op = "cancel_task"
        /\ ret'.seen = "none"
        /\ store[t].exists
        /\ store[t].created_by = ret'.user
        /\ store[t].status \notin {"success", "failure", "revoked"})
         => (/\ store'[t].status = "revoked"
             /\ store'[t].error \notin {"", "none"}
             /\ store'[t].completed_at
             /\ ret'.value = "True")]_vars

\* C17 witness: the owner cancelled a task that was in progress, and the call
\* returned True.
C17_Witness ==
  \E t \in TaskIds :
    /\ ret.op = "cancel_task" /\ ret.value = "True"
    /\ ret.before = "progress"
    /\ ret.user = store[t].created_by
    /\ store[t].status = "revoked"

C19_SearchHits ==
  vret.op = "search" =>
    /\ (~index.exists \/ ntotal(index) = 0)
          => (vret.outcome = "ok" /\ vret.hits = <<>>)
    /\ vret.outcome = "ok" =>
          /\ Len(vret.hits) <= vret.k
          /\ \A i \in 1..Len(vret.hits) :
               /\ vret.hits[i].score >= vret.threshold
               /\ vret.hits[i].id \in 0..(ntotal(index) - 1)
          /\ \A i, j \in 1..Len(vret.hits) :
               i < j => vret.hits[i].score >= vret.hits[j].score

\* C19 witness: a search with k = 3 over two stored vectors returned the
\* second one at cosine 0.96 ahead of the first at 0, and no third hit.
C19_Witness ==
  /\ vret.op = "search" /\ vret.k = 3 /\ vret.threshold = 0
  /\ ntotal(index) = 2
  /\ vret.hits = <<[id |-> 1, score |-> 960000], [id |-> 0, score |-> 0]>>

\* C19 witness: a search with k = 2 on an instance without an index returned
\* the empty list.
C19_WitnessEmpty ==
  /\ vret.op = "search" /\ vret.k = 2 /\ vret.outcome = "ok"
  /\ ~index.exists /\ vret.hits = <<>>

\* C20: a candidate search over n candidates, asked for k >= 0 of them,
\* returns the min(k, n) candidates of highest total score, in descending
\* order of total score, and candidates of equal total score appear in the
\* order in which they were retrieved.
C20_TopKStable ==
  (sret.op \in {"search_candidates", "search_candidates_async"} /\ sret.k >= 0)
    => LET n == Len(db_candidates)
           ms == sret.matches
       IN /\ sret.outcome = "ok"
          /\ Len(ms) = Min(sret.k, n)
          /\ \A i \in 1..Len(ms) : ms[i].id \in 1..n
          /\ \A i, j \in 1..Len(ms) : i # j => ms[i].id # ms[j].id
          /\ \A i, j \in 1..Len(ms) :
               i < j => /\ ms[i].total_score >= ms[j].total_score
                        /\ ms[i].total_score = ms[j].total_score
                             => ms[i].id < ms[j].id
          /\ \E w \in WeightSets :
               /\ \A i \in 1..Len(ms) :
                    ms[i].total_score = total_score(db_candidates[ms[i].id], w)
               /\ \A c \in 1..n :
                    (\A i \in 1..Len(ms) : ms[i].id # c)
                      => \A i \in 1..Len(ms) :
                           ms[i].total_score >= total_score(db_candidates[c], w)

\* C20 at the /search endpoint alone.
C20_EndpointTopKStable ==
  sret.op = "search_candidates_async" \/ C20_TopKStable

\* C20 at the endpoint, reached: three candidates, the first two of equal
\* total score under the fixed weights, k = 2, and the answer lists the third
\* and then the first.
C20_EndpointWitness ==
  /\ sret.op = "search_candidates" /\ sret.k = 2
  /\ Len(db_candidates) = 3
  /\ Len(sret.matches) = 2
  /\ sret.matches[1].id = 3 /\ sret.matches[1].total_score = 600000
  /\ sret.matches[2].id = 1 /\ sret.matches[2].total_score = 400000
  /\ total_score(db_candidates[2], default_weights) = 400000

\* C21: for every scored candidate, total_score equals semantic_weight *
\* semantic_score + skill_weight * skill_overlap + experience_weight *
\* experience_match, with exactly the weights reported in that result's
\* score breakdown.
C21_TotalIsWeightedSum ==
  \A m \in {sret.scores[i] : i \in 1..Len(sret.scores)}
          \cup {sret.matches[i] : i \in 1..Len(sret.matches)} :
    m.total_score =
        m.score_breakdown.semantic_weight * m.semantic_score
      + m.score_breakdown.skill_overlap_weight * m.skill_overlap_score
      + m.score_breakdown.experience_weight * m.experience_match_score

\* C21 witness: a search under learned weights 0.6/0.2/0.2 returned a
\* candidate with scores 0.5, 0.5 and 1.0 at a total of 0.6.
C21_Witness ==
  /\ sret.op = "search_candidates" /\ Len(sret.matches) >= 1
  /\ sret.matches[1].score_breakdown.semantic_weight = 600
  /\ sret.matches[1].semantic_score = 500
  /\ sret.matches[1].experience_match_score = 1000
  /\ sret.matches[1].total_score = 600000

\* C22: calculate_skill_overlap returns |candidate_skills n required_skills|
\* / |required_skills| for every non-empty required set, and 1.0 for every
\* candidate when the required set is empty.  Skills are compared as the
\* skill sets the two lists denote: without regard to case or repetition.
C22_SkillOverlap ==
  computed.op = "calculate_skill_overlap" =>
    LET C == {lower(computed.args[2][i]) : i \in 1..Len(computed.args[2])}
        R == {lower(computed.args[3][i]) : i \in 1..Len(computed.args[3])}
    IN IF R = {}
       THEN computed.value.num = computed.value.den
       ELSE /\ computed.value.den > 0
            /\ computed.value.num * Cardinality(R)
                 = Cardinality(C \cap R) * computed.value.den

\* C22 witness: skills python and react against required python and aws give
\* an overlap of one half.
C22_Witness ==
  /\ computed.op = "calculate_skill_overlap"
  /\ computed.args = <<"skills", <<"python", "react">>, <<"python", "aws">>>>
  /\ computed.value.num * 2 = computed.value.den

\* C22 witness: no required skill, and a candidate without skills scores 1.0.
C22_WitnessEmpty ==
  /\ computed.op = "calculate_skill_overlap"
  /\ computed.args = <<"skills", <<>>, <<>>>>
  /\ computed.value = One

\* C23: calculate_experience_match returns 1.0 when the candidate's years are
\* at least the required years or the required years are zero or less, and
\* candidate_years / required_years when the candidate's years are below
\* required years that are positive.
C23_ExperienceMatch ==
  computed.op = "calculate_experience_match" =>
    LET cy == computed.args[2]
        ry == computed.args[3]
    IN IF cy >= ry \/ ry <= 0
       THEN computed.value.num = computed.value.den /\ computed.value.den # 0
       ELSE /\ computed.value.den > 0
            /\ computed.value.num * ry = cy * computed.value.den

\* C23 witness: one year against three required gives one third.
C23_Witness ==
  /\ computed.op = "calculate_experience_match"
  /\ computed.args = <<"years", 1, 3>>
  /\ computed.value.num * 3 = computed.value.den

\* C23 witness: three years against two required gives 1.0.
C23_WitnessEnough ==
  /\ computed.op = "calculate_experience_match"
  /\ computed.args = <<"years", 3, 2>>
  /\ computed.value = One

\* C24: every candidate and job posting record that is persisted has a skill
\* list that is entirely lower-case and free of duplicates, whichever path
\* produced it: basic parsing, LLM parsing with or without manually supplied
\* skills, the synchronous upload or the resume task, or job creation.
C24_SkillsNormalized ==
  computed.op \in {"upload_resume", "process_resume_internal",
                   "create_job_posting"} =>
    /\ \A i \in 1..Len(computed.value) :
         computed.value[i] = lower(computed.value[i])
    /\ \A i, j \in 1..Len(computed.value) :
         i # j => computed.value[i] # computed.value[j]

\* C24 on every path but LLM parsing with manually supplied skills.
C24_SkillsNormalizedElsewhere ==
  (/\ computed.op \in {"upload_resume", "process_resume_internal"}
   /\ computed.args[2] = "llm" /\ computed.args[3] # <<>>)
    \/ C24_SkillsNormalized

\* C24 elsewhere, reached: basic parsing stored python once for the form
\* entries Python and py.
C24_WitnessElsewhere ==
  /\ computed.op = "upload_resume"
  /\ computed.args = <<"resume", "basic", <<"Python", "py">>, <<>>>>
  /\ computed.value = <<"python">>

\* C25: get_user_tasks(owner, kind, limit) returns only records created by
\* that owner (and of that kind when one is given), at most limit of them,
\* ordered by creation time, newest first.
C25_UserTasks ==
  (ret.op = "get_user_tasks" /\ ret.seen = "ok") =>
    /\ Len(ret.value) <= ret.limit
    /\ \A i \in 1..Len(ret.value) :
         /\ ret.value[i].task_id \in Uuids
         /\ store[ret.value[i].task_id].exists
         /\ store[ret.value[i].task_id].created_by = ret.user
         /\ ret.kind # "None"
              => store[ret.value[i].task_id].task_type = ret.kind
    /\ \A i, j \in 1..Len(ret.value) :
         i < j => /\ ret.value[i].task_id # ret.value[j].task_id
                  /\ store[ret.value[i].task_id].created_at
                       >= store[ret.value[j].task_id].created_at

\* C25 witness: the owner of two records, the second created later, asked
\* for all kinds with limit 2 and got the second before the first.
C25_Witness ==
  /\ ret.op = "get_user_tasks" /\ ret.limit = 2 /\ ret.kind = "None"
  /\ Len(ret.value) = 2
  /\ store[ret.value[1].task_id].created_at
       > store[ret.value[2].task_id].created_at

\* C25 witness: with limit 1 the owner of two records got the newer one only,
\* and the other user's record is not listed.
C25_WitnessLimit ==
  /\ ret.op = "get_user_tasks" /\ ret.limit = 1 /\ Len(ret.value) = 1
  /\ \E t \in Uuids : store[t].exists /\ store[t].created_by # ret.user

\* C26: the delay before successive automatic retries of a failed task
\* grows: each retry of a task waits longer than the previous retry of that
\* task.
C26_RetryDelayGrows ==
  \A t \in TaskIds :
    \A i, j \in 1..Len(wk[t].countdowns) :
      i < j => wk[t].countdowns[i] < wk[t].countdowns[j]

\* C27: a learned-weights record is returned from the cache only to a
\* request of the same scope: weights learned from one recruiter's
\* interactions are never returned to a request for another recruiter or
\* for none, and weights stored for one job category are never returned to a
\* request for another category or for none.
C27_CacheKeepsScope ==
  (lret.op = "get_optimal_weights" /\ lret.path = "cached") =>
    /\ lret.weights.learned_from # "none"
         => lret.rid = lret.weights.learned_from
    /\ lret.weights.job_category # "none"
         => lret.cat = lret.weights.job_category

\* C28: when several stored records match the requested scope,
\* get_optimal_weights answers with the most recent of the matching records
\* that are younger than 7 days and have a confidence above 0.3: whenever
\* such a record exists at the call, the answer is that record.
C28_MostRecentFreshConfident ==
  [][(/\ lret' # lret
      /\ lret'.op = "get_optimal_weights"
      /\ lret'.path \in {"cached", "learned"}
      /\ fresh_matches(lret'.cat) # {})
       => /\ lret'.path = "cached"
          /\ lret'.weights =
               learning_weights[CHOOSE i \in fresh_matches(lret'.cat) :
                                  \A j \in fresh_matches(lret'.cat) : j <= i]]_vars

\* C29: in the retrain state get_optimal_weights fits the regression
\* whenever at least 10 interactions of the last 30 days (of the recruiter,
\* when one is given) carry all three component scores, and returns the
\* default triple for lack of data only below that count.  A fitted answer
\* carries the number of interactions it was learned from, the default
\* answer carries 0.
C29_FitsFromTenSamples ==
  [][(lret' # lret /\ lret'.op = "get_optimal_weights" /\ lret'.path = "learned")
       => (lret'.weights.interaction_count > 0
             <=> UsableCount(lret'.rid) >= MinSamples)]_vars

\* C29 as the code has it: the regression is fitted exactly when at least
\* 50 interactions of the last 30 days exist (of the recruiter, when one is
\* given) and at least 10 of them carry all three component scores; below
\* either count the default triple is returned.
C29_FitsFromFiftyRecentAndTenSamples ==
  [][(lret' # lret /\ lret'.op = "get_optimal_weights" /\ lret'.path = "learned")
       => (lret'.weights.interaction_count > 0
             <=> /\ RecentCount(lret'.rid) >= min_interactions_threshold
                 /\ UsableCount(lret'.rid) >= MinSamples)]_vars

\* A retrain answered with the default triple although 10 or more recent
\* interactions carry all three scores: fewer than 50 are recent.
C29_Witness ==
  /\ lret.op = "get_optimal_weights" /\ lret.path = "learned"
  /\ lret.weights.interaction_count = 0
  /\ lret.weights.semantic_weight = default_weights[1]
  /\ UsableCount(lret.rid) >= MinSamples
  /\ RecentCount(lret.rid) < min_interactions_threshold
  /\ count_documents >= min_interactions_threshold

\* A retrain that fitted the regression.
C29_WitnessFitted ==
  /\ lret.op = "get_optimal_weights" /\ lret.path = "learned"
  /\ lret.weights.interaction_count >= min_interactions_threshold
  /\ UsableCount(lret.rid) >= MinSamples
  /\ RecentCount(lret.rid) >= min_interactions_threshold

C30_WitnessAtThreshold ==
  /\ recorded.returned /\ recorded.interaction_type # "none"
  /\ count_documents = 50
  /\ lret = NoAnswer

\* The insert failed at 59 stored interactions: nothing else happened.
C30_WitnessNotStored ==
  /\ ~recorded.returned /\ recorded.interaction_type # "none"
  /\ count_documents = 59
  /\ lret = NoAnswer

\* C31: once cancel_task has marked the record of a running task revoked,
\* the body performs no further side effect: no step of a running body
\* that finds the record revoked writes progress to it or inserts a
\* candidate.
C31_RevokedBodyStops ==
  [][\A t \in TaskIds :
       (store[t].status = "revoked" /\ wk[t].msg = "running")
         => /\ store'[t].progress = store[t].progress
            /\ store'[t].status # "progress"
            /\ candidates'[t] = candidates[t]]_vars

\* C32: persisting the index is append-only: after any step, every vector
\* the index file held before is still in it at the same position (its id),
\* and every member of the metadata file is still in it under the same key.
C32_FilesOnlyGrow ==
  [][/\ index_file.exists
          => /\ index_file'.exists
             /\ Len(index_file'.rows) >= Len(index_file.rows)
             /\ \A i \in 1..Len(index_file.rows) :
                  index_file'.rows[i] = index_file.rows[i]
     /\ meta_file.exists
          => /\ meta_file'.exists
             /\ meta_file.map \subseteq meta_file'.map]_vars

C34_DefaultsNotSaved ==
  [][(/\ lret' # lret
      /\ lret'.op = "get_optimal_weights"
      /\ lret'.weights.interaction_count = 0)
       => learning_weights' = learning_weights]_vars

\* C35: a progress update of the worker changes only the status, the
\* progress and the progress message of the record: the owner, the task
\* kind, the creation time and the metadata entries stored at creation are
\* as they were.
C35_ProgressKeepsCreationData ==
  [][\A t \in TaskIds :
       (wk[t].msg = "running" /\ wk'[t].pc = wk[t].pc + 1)
         => /\ store'[t].status = "progress"
            /\ store'[t].created_by = store[t].created_by
            /\ store'[t].task_type = store[t].task_type
            /\ store'[t].created_at = store[t].created_at
            /\ store[t].metadata = "creation"
                 => store'[t].metadata = "creation"]_vars

\* C36: in every reachable state a task record carries a completion time
\* only if its status is success, failure or revoked.
C36_CompletedOnlyWhenTerminal ==
  \A t \in TaskIds :
    store[t].completed_at => store[t].status \in {"success", "failure", "revoked"}

\* C37: after any sequence of add_vectors calls the metadata map has an
\* entry for every id in 0..ntotal-1 and for no other id (a map holds one
\* entry per key).
C37_MetadataCoversIds ==
  DOMAIN metadata = {str(i) : i \in 0..(ntotal(index) - 1)}

\* C38: an add_vectors call that raises (input that is not 2-D, a
\* dimensionality other than the index's, or a metadata list longer than
\* the batch) leaves the index contents and the metadata map as they were.
C38_RaisingAddChangesNothing ==
  [][(/\ vret'.op = "add_vectors"
      /\ vret'.outcome \in {"ValueError", "AssertionError", "IndexError"}
      /\ vret' # vret)
       => /\ index'.rows = index.rows
          /\ metadata' = metadata]_vars

\* C39: when update_weights_with_feedback calls overlap, every multiple of
\* 10 above 50 that the total interaction count reaches starts exactly one
\* retrain attempt.  Stated once every call has returned, over the counts
\* the store went through.
C39_EachTenthOnce ==
  (\A c \in CallIds : calls[c].pc \in {"idle", "done"})
    => LET stored == Cardinality({c \in CallIds : calls[c].pc = "done"})
       IN \A n \in (count_documents - stored + 1)..count_documents :
            (n > 50 /\ n % 10 = 0)
              => Cardinality({i \in 1..Len(triggered) : triggered[i] = n}) = 1

\* C40: get_optimal_weights calls that retrain while they overlap on the
\* one engine do not interfere: the weights and the confidence a call
\* returns were read from the fit of the sample that call loaded.
C40_OwnSampleFitted ==
  \A c \in CallIds :
    (calls[c].pc \in {"fitted", "done"} /\ calls[c].learned.interaction_count > 0)
      => /\ calls[c].coef_from = calls[c].sample
         /\ calls[c].learned.interaction_count = calls[c].sample.recent

\* Two calls have fitted different samples and both wait for their insert;
\* the regressor holds the fit of the second.
C40_Witness ==
  /\ calls[1].pc = "fitted" /\ calls[2].pc = "fitted"
  /\ calls[1].sample # calls[2].sample
  /\ calls[1].learned.interaction_count > 0
  /\ calls[2].learned.interaction_count > 0
  /\ engine.model = calls[2].sample
  /\ calls[1].coef_from = calls[1].sample

====
